---- MODULE Spec2Model ----
(***************************************************************************)
(* Model of the wine concierge: the agent workflow of src/src/agent.py     *)
(* (route -> tool handler -> respond), the WebSearcher of                  *)
(* src/src/web_search.py, the WeatherService of src/src/weather.py, the    *)
(* DocumentRetriever of src/src/document_retriever.py and the HTTP layers  *)
(* of src/src/api.py and src/src/main.py (with src/src/rate_limiter.py).   *)
(*                                                                         *)
(* Spec         the agent: process_message running the compiled workflow,  *)
(*              and the node methods called directly on a given state.     *)
(* SpecProcess  the agent, with the exceptions process_message catches:    *)
(*              a history entry that lacks a key, ainvoke raising.         *)
(* SpecConvert  the conversion of a history into messages by               *)
(*              process_message, on bounded histories.                     *)
(* SpecSearch   one WebSearcher with its 24 hour cache and a clock.        *)
(* SpecWeather  one WeatherService with its 30 minute cache and a clock.   *)
(* SpecResult   SearchResult.to_dict / from_dict on bounded values.        *)
(* SpecApi      the endpoints and exception handlers of api.py, the two    *)
(*              DocumentRetriever objects, the data directory and the      *)
(*              index saved on disk.                                       *)
(* SpecMain     the endpoints of main.py behind the rate limiter.          *)
(* SpecConc     two threads calling one shared WebSearcher (search or      *)
(*              get_webpage_content) or one shared WeatherService, a call  *)
(*              being a lookup step, an upstream step and, for a page, a   *)
(*              store step.                                                *)
(*                                                                         *)
(* Python None is NoneStr where the other values are strings and None      *)
(* where they are objects.  Time is counted in minutes.                    *)
(***************************************************************************)
EXTENDS Integers, Sequences, FiniteSets, TLC

VARIABLES
    pc,            \* agent: node about to run, "idle", "end" or "returned"
    caller,        \* agent: "none", "workflow" (process_message) or "direct"
    state,         \* agent: the AgentState of the run / argument of the call
    ret,           \* agent: value returned by the node that ran last
    selection,     \* agent: the ToolSelection returned by _route in this run
    router_input,  \* agent: the text _route handed to the routing chain
    llm_out,       \* agent: outcome of the routing chain in this run
    fault,         \* agent: what failed inside the tool handler that ran last
    tool_arg,      \* agent: the argument the handler passed to its adapter
    trace,         \* agent: the nodes run so far in this run, in order
    raised,        \* agent: exception that left a node ("none" if none did)
    result,        \* agent: the dictionary returned by process_message
    request,       \* agent: the arguments of the process_message call
    llm_calls,     \* agent: calls of the language model made by each node
    prompt,        \* agent: the system message _respond built in this run
    earlier,       \* agent: the request process_message served before this
                   \* one: its message and the length of its history
    now,           \* clock, in minutes
    scache,        \* WebSearcher.cache
    sconf,         \* WebSearcher credentials: api_key and search_engine_id
    scall,         \* WebSearcher: what the last search call did and returned
    sstored,       \* WebSearcher: per key, the last results a search stored
    wcache,        \* WeatherService.cache
    wkey,          \* WeatherService.api_key is set
    wcall,         \* WeatherService: what the last call did and returned
    wfetched,      \* WeatherService: per location, the last payload fetched
    rt,            \* SearchResult round trip: the value and its images
    dir,           \* the files of the data directory, by extension
    disk,          \* the index saved at ../data/vector_store (None if none)
    retr,          \* the DocumentRetriever objects: vector_store, documents
    dcall,         \* DocumentRetriever: what the last call did and returned
    http,          \* api.py: the last request and the response it got
    hits,          \* main.py: requests the limiter admitted in this window
    mresp,         \* main.py: the last request and the response it got
    th,            \* concurrent callers of one adapter: each one's call
    pcache,        \* WebSearcher.cache: the entries get_webpage_content keeps
    wrote,         \* per cache entry, the fetch that wrote it last
    conv           \* a message and a history, and the messages built from them

agentVars == <<pc, caller, state, ret, selection, router_input, llm_out,
               fault, tool_arg, trace, raised, result, request, llm_calls,
               prompt, earlier>>
searchVars == <<scache, sconf, scall, sstored>>
weatherVars == <<wcache, wkey, wcall, wfetched>>
apiVars == <<dir, disk, retr, dcall, http>>
mainVars == <<hits, mresp>>
concVars == <<th, pcache, wrote>>
convVars == <<conv>>
extVars == <<apiVars, mainVars, concVars, convVars>>
notApiVars == <<agentVars, now, searchVars, weatherVars, rt, mainVars, concVars,
                convVars>>
notMainVars == <<agentVars, searchVars, weatherVars, rt, apiVars, concVars,
                 convVars>>
notConcVars == <<agentVars, sconf, scall, sstored, wkey, wcall, wfetched, rt,
                 apiVars, mainVars, convVars>>
vars == <<agentVars, now, searchVars, weatherVars, rt, extVars>>

None == [py |-> "None"]
NoneStr == "None"

(***************************************************************************)
(* The agent (src/src/agent.py)                                            *)
(***************************************************************************)

\* Bounds of the agent model
MaxHistory == 1
MaxDocs == 2

ToolType == {"document_retrieval", "web_search", "weather", "respond"}
Handlers == {"document_retrieval", "web_search", "weather"}
\* the nodes of the workflow (lines 75-79)
Nodes == {"route", "document_retrieval", "web_search", "weather", "respond"}

Contents == {"hi", "napa"}
Roles == {"user", "assistant", "system"}
ToolInputs == {"", "Napa,CA,US"}
DefaultLocation == "Napa,CA,US"

HumanMessage(c) == [type |-> "human", content |-> c]
AIMessage(c) == [type |-> "ai", content |-> c]
ToolSelection(t, i) == [tool |-> t, tool_input |-> i]

\* AgentState: the four channels of the graph state
AgentState(m, c, t, r) ==
    [messages |-> m, context |-> c, current_tool |-> t, tool_result |-> r]
StateKeys == {"messages", "context", "current_tool", "tool_result"}

\* the reducer of the messages channel: lambda x, y: x + y
MessagesReducer(x, y) == x \o y

\* How the graph applies the value a node returned: a channel the value
\* carries is updated (messages through its reducer, the others replaced);
\* a value carrying none of the channels, such as a ToolSelection, changes
\* nothing.
ApplyUpdate(st, upd) ==
    [k \in DOMAIN st |->
        IF k \in DOMAIN upd
        THEN IF k = "messages" THEN MessagesReducer(st[k], upd[k]) ELSE upd[k]
        ELSE st[k]]

\* ---- _route ----
RouterFallback == ToolSelection("respond", "")

UserMessageUnguarded(st) ==
    IF st.messages # <<>> THEN st.messages[Len(st.messages)].content
    ELSE "IndexError"

\* line 107: the last message's content, "" for an empty conversation
UserMessage(st) ==
    IF st.messages # <<>> THEN st.messages[Len(st.messages)].content ELSE ""

\* outcomes of chain.invoke: a parsed selection or a failure
LLMFailures == {"call_error", "not_json", "not_selection"}
LLMOutcomes == LLMFailures \cup {"ok"}

RouteSelectionNoFallback(out, sel) ==
    IF out = "ok" THEN sel ELSE ToolSelection("web_search", "")

\* lines 144-151: the selection, the fallback on any exception
RouteSelection(out, sel) ==
    IF out = "ok" THEN sel ELSE RouterFallback

\* _decide_next_step: reads the key "tool" of the state
_decide_next_step(st) ==
    IF "tool" \notin DOMAIN st THEN "respond" ELSE st["tool"]

\* the conditional edges of route (lines 82-91)
EdgeOfRoute(tag) ==
    CASE tag = "document_retrieval" -> "document_retrieval"
      [] tag = "web_search" -> "web_search"
      [] tag = "weather" -> "weather"
      [] tag = "respond" -> "respond"

AfterNodeBackToRouter(node, st) ==
    IF caller = "direct" THEN "returned"
    ELSE IF node = "route" THEN EdgeOfRoute(_decide_next_step(st))
    ELSE IF node \in Handlers THEN "respond"
    ELSE IF Len(st.messages) < 8 THEN "route" ELSE "end"

\* where a node leads: the edges of the workflow, or back to the caller
AfterNode(node, st) ==
    IF caller = "direct" THEN "returned"
    ELSE IF node = "route" THEN EdgeOfRoute(_decide_next_step(st))
    ELSE IF node \in Handlers THEN "respond"
    ELSE "end"

\* ---- the tool handlers ----
ErrContext(h) ==
    CASE h = "document_retrieval" -> "Error retrieving documents. Please try again."
      [] h = "web_search" -> "Error performing web search. Please try again."
      [] h = "weather" -> "Error getting weather information. Please try again."
ErrResult(h) ==
    CASE h = "document_retrieval" -> "Error retrieving documents."
      [] h = "web_search" -> "Error performing web search."
      [] h = "weather" -> "Error getting weather information."

\* the context string formatted from n documents or n search results
FormatContext(h, n) ==
    IF n = 0 THEN ""
    ELSE IF h = "document_retrieval"
         THEN (IF n = 1 THEN "Document 1" ELSE "Document 1..n")
         ELSE (IF n = 1 THEN "Result 1" ELSE "Result 1..n")

WeatherInfos == {"Current weather ... advice", "I couldn't retrieve the weather information."}

\* what the adapter call of a handler can do: raise, or give a context
AdapterOutcomes(h) ==
    {[ok |-> FALSE, context |-> ""]} \cup
    (IF h = "weather"
     THEN {[ok |-> TRUE, context |-> w] : w \in WeatherInfos}
     ELSE {[ok |-> TRUE, context |-> FormatContext(h, n)] : n \in 0..MaxDocs})

HandlerFault(st, out) ==
    IF "tool_input" \notin DOMAIN st THEN "missing_input"
    ELSE IF ~out.ok THEN "adapter_error"
    ELSE "none"

\* the argument the handler passes to its adapter (line 227 for weather)
AdapterArg(h, st) ==
    IF "tool_input" \notin DOMAIN st THEN NoneStr
    ELSE IF h = "weather" /\ st["tool_input"] = "" THEN DefaultLocation
    ELSE st["tool_input"]

HandlerReturnNoCatch(h, st, out) ==
    IF HandlerFault(st, out) = "none"
    THEN AgentState(st.messages, out.context, h, out.context)
    ELSE AgentState(st.messages, "", NoneStr, NoneStr)

\* the state a handler returns: the try branch or the except branch
HandlerReturn(h, st, out) ==
    IF HandlerFault(st, out) = "none"
    THEN AgentState(st.messages, out.context, h, out.context)
    ELSE AgentState(st.messages, ErrContext(h), h, ErrResult(h))

\* ---- _respond ----
Replies == {"reply"}
RespondError == "I'm sorry, I encountered an error while generating a response. Please try again."
ProcessError == "I'm sorry, I encountered an error while processing your request. Please try again."

\* the four system messages of lines 259-278, by their opening and the
\* heading under which the context is embedded
DocumentTemplate == "You are a knowledgeable wine concierge. ... Relevant information:"
SearchTemplate == "You are a helpful assistant. ... Search results:"
WeatherTemplate == "You are a helpful assistant providing weather information. ... current weather information:"
GenericTemplate == "You are a friendly and knowledgeable wine concierge. ..."

SystemPromptSearchAsDocuments(st) ==
    CASE st.current_tool = "document_retrieval" -> <<DocumentTemplate, st.context>>
      [] st.current_tool = "web_search" -> <<DocumentTemplate, st.context>>
      [] st.current_tool = "weather" -> <<WeatherTemplate, st.context>>
      [] OTHER -> <<GenericTemplate>>

\* lines 259-278: the system message, the template followed by the context
\* it embeds (the generic template embeds none)
SystemPrompt(st) ==
    CASE st.current_tool = "document_retrieval" -> <<DocumentTemplate, st.context>>
      [] st.current_tool = "web_search" -> <<SearchTemplate, st.context>>
      [] st.current_tool = "weather" -> <<WeatherTemplate, st.context>>
      [] OTHER -> <<GenericTemplate>>

RespondReturnKeepingTool(st, text) ==
    AgentState(st.messages \o <<AIMessage(text)>>, st.context,
               st.current_tool, st.tool_result)

\* lines 291-310: the state _respond returns, from the try branch (the text
\* generated) or from the except branch (the apology)
RespondReturn(st, text) ==
    AgentState(st.messages \o <<AIMessage(text)>>, st.context, NoneStr, NoneStr)

\* ---- process_message ----
Histories ==
    UNION {[1..n -> [role : Roles, content : Contents]] : n \in 0..MaxHistory}

\* histories with an entry that lacks a key
BadEntries == {[content |-> "hi"], [role |-> "user"]}
BadHistories ==
    UNION {[1..n -> [role : Roles, content : Contents] \cup BadEntries] :
              n \in 1..MaxHistory} \ Histories

\* lines 326-331: msg["role"] is read before msg["content"]; the text of the
\* KeyError of the first entry that lacks one of them, "none" if none does
RECURSIVE HistoryError(_)
HistoryError(h) ==
    IF h = <<>> THEN "none"
    ELSE IF "role" \notin DOMAIN Head(h) THEN "'role'"
    ELSE IF "content" \notin DOMAIN Head(h) THEN "'content'"
    ELSE HistoryError(Tail(h))

\* what self.workflow.ainvoke can raise
WorkflowErrors == {"workflow error"}

ConvertHistoryAssistantOnly(h) ==
    [i \in 1..Len(h) |->
        IF h[i].role = "assistant" THEN AIMessage(h[i].content)
        ELSE HumanMessage(h[i].content)]

\* lines 325-331: the messages of the history, in order
ConvertHistory(h) ==
    [i \in 1..Len(h) |->
        IF h[i].role = "user" THEN HumanMessage(h[i].content)
        ELSE AIMessage(h[i].content)]

InitialStateWithMemory(message, history) ==
    AgentState(state.messages \o ConvertHistory(history) \o <<HumanMessage(message)>>,
               "", NoneStr, NoneStr)

\* lines 333-342: the state of a request, built from its two arguments
InitialState(message, history) ==
    AgentState(ConvertHistory(history) \o <<HumanMessage(message)>>,
               "", NoneStr, NoneStr)

\* states handed to a node method called directly: a fresh state, with or
\* without a tool_input, or the state a tool handler returned
DirectStates ==
    LET base == {AgentState(m, "", NoneStr, NoneStr) :
                    m \in {<<>>} \cup {<<HumanMessage(c)>> : c \in Contents}}
        input == {("tool_input" :> i) @@ b : i \in ToolInputs, b \in base}
    IN  base \cup input \cup
        {HandlerReturn(h, b, out) :
            h \in Handlers, b \in input, out \in UNION {AdapterOutcomes(k) : k \in Handlers}}

\* no call of the language model made yet
NoCalls == [route |-> 0, respond |-> 0]

AgentInit ==
    /\ pc = "idle"
    /\ caller = "none"
    /\ state = AgentState(<<>>, "", NoneStr, NoneStr)
    /\ ret = None
    /\ selection = None
    /\ router_input = NoneStr
    /\ llm_out = "unset"
    /\ fault = "none"
    /\ tool_arg = NoneStr
    /\ trace = <<>>
    /\ raised = "none"
    /\ result = None
    /\ request = None
    /\ llm_calls = NoCalls
    /\ prompt = <<>>
    /\ earlier = None

NewRun(c, st, first) ==
    /\ pc = "idle"
    /\ pc' = first
    /\ caller' = c
    /\ state' = st
    /\ ret' = None
    /\ selection' = None
    /\ router_input' = NoneStr
    /\ llm_out' = "unset"
    /\ fault' = "none"
    /\ tool_arg' = NoneStr
    /\ trace' = <<>>
    /\ raised' = "none"
    /\ result' = None
    /\ llm_calls' = NoCalls
    /\ prompt' = <<>>
    /\ earlier' = earlier

\* process_message, lines 323-345: build the state, enter the workflow
ProcessMessage ==
    /\ \E message \in Contents, history \in Histories :
          /\ NewRun("workflow", InitialState(message, history), "route")
          /\ request' = [message |-> message, history |-> history]
    /\ UNCHANGED <<now, searchVars, weatherVars, rt, extVars>>

\* process_message, lines 323-331 and 357-362: an entry of the history lacks
\* a key, the KeyError is caught before a state is built
ProcessMessageBadHistory ==
    /\ pc = "idle"
    /\ \E message \in Contents, history \in BadHistories :
          /\ request' = [message |-> message, history |-> history]
          /\ raised' = HistoryError(history)
    /\ pc' = "end"
    /\ caller' = "workflow"
    /\ state' = AgentState(<<>>, "", NoneStr, NoneStr)
    /\ ret' = None
    /\ selection' = None
    /\ router_input' = NoneStr
    /\ llm_out' = "unset"
    /\ fault' = "none"
    /\ tool_arg' = NoneStr
    /\ trace' = <<>>
    /\ result' = None
    /\ llm_calls' = NoCalls
    /\ prompt' = <<>>
    /\ UNCHANGED earlier
    /\ UNCHANGED <<now, searchVars, weatherVars, rt, extVars>>

\* process_message, line 345: ainvoke raises instead of running the next node
WorkflowRaises ==
    /\ caller = "workflow"
    /\ pc \in Nodes
    /\ \E e \in WorkflowErrors : raised' = e
    /\ pc' = "end"
    /\ UNCHANGED <<caller, state, ret, selection, router_input, llm_out,
                   fault, tool_arg, trace, result, request, llm_calls, prompt,
                   earlier>>
    /\ UNCHANGED <<now, searchVars, weatherVars, rt, extVars>>

\* a node method called on a state
CallNode ==
    /\ \E n \in Nodes, st \in DirectStates :
          NewRun("direct", st, n)
    /\ request' = None
    /\ UNCHANGED <<now, searchVars, weatherVars, rt, extVars>>

\* the route node and the conditional edge that follows it
Route ==
    /\ pc = "route"
    /\ \E out \in LLMOutcomes, t \in ToolType, i \in ToolInputs :
          LET sel == RouteSelection(out, ToolSelection(t, i))
              st == IF caller = "workflow" THEN ApplyUpdate(state, sel) ELSE state
          IN  /\ router_input' = UserMessage(state)
              /\ llm_out' = out
              /\ selection' = sel
              /\ ret' = sel
              /\ state' = st
              /\ pc' = AfterNode("route", st)
    /\ trace' = Append(trace, "route")
    /\ llm_calls' = [llm_calls EXCEPT !.route = @ + 1]
    /\ UNCHANGED <<caller, fault, tool_arg, raised, result, request, prompt,
                   earlier>>
    /\ UNCHANGED <<now, searchVars, weatherVars, rt, extVars>>

\* the body shared by the three handlers: read tool_input, call the adapter,
\* return the new state or, on any exception, the error state
HandlerStep(h) ==
    /\ \E out \in AdapterOutcomes(h) :
          LET r == HandlerReturn(h, state, out)
          IN  /\ fault' = HandlerFault(state, out)
              /\ tool_arg' = AdapterArg(h, state)
              /\ ret' = r
              /\ state' = IF caller = "workflow" THEN ApplyUpdate(state, r) ELSE state
              /\ pc' = AfterNode(h, state)
    /\ trace' = Append(trace, h)
    /\ UNCHANGED <<caller, selection, router_input, llm_out, raised, result,
                   request, llm_calls, prompt, earlier>>
    /\ UNCHANGED <<now, searchVars, weatherVars, rt, extVars>>

RetrieveDocuments ==
    /\ pc = "document_retrieval"
    /\ HandlerStep("document_retrieval")

PerformWebSearch ==
    /\ pc = "web_search"
    /\ HandlerStep("web_search")

GetWeatherNode ==
    /\ pc = "weather"
    /\ HandlerStep("weather")

Respond ==
    /\ pc = "respond"
    /\ \E text \in Replies \cup {RespondError} :
          LET r == RespondReturn(state, text)
          IN  /\ ret' = r
              /\ state' = IF caller = "workflow" THEN ApplyUpdate(state, r) ELSE state
              /\ pc' = AfterNode("respond", state)
    /\ trace' = Append(trace, "respond")
    /\ prompt' = SystemPrompt(state)
    /\ llm_calls' = [llm_calls EXCEPT !.respond = @ + 1]
    /\ UNCHANGED <<caller, selection, router_input, llm_out, fault, tool_arg,
                   raised, result, request, earlier>>
    /\ UNCHANGED <<now, searchVars, weatherVars, rt, extVars>>

\* process_message, lines 347-355: the result taken from the final state
ProcessResult(st) ==
    [response |-> st.messages[Len(st.messages)].content,
     context |-> st.context,
     tool_used |-> st.current_tool,
     tool_result |-> st.tool_result]

\* process_message, lines 357-362: the result of the except branch
ProcessFailure(text) == [response |-> ProcessError, error |-> text]

ProcessOutcomeReraising(st, exc) ==
    IF exc = "none" THEN ProcessResult(st) ELSE None

\* process_message, lines 323-362: what the call hands back, given the final
\* state of the workflow or the exception that was raised inside the try
ProcessOutcome(st, exc) ==
    IF exc = "none" THEN ProcessResult(st) ELSE ProcessFailure(exc)

Return ==
    /\ pc \in {"end", "returned"}
    /\ pc' = "idle"
    /\ result' = IF caller = "workflow" THEN ProcessOutcome(state, raised) ELSE None
    /\ earlier' = IF caller = "workflow"
                  THEN [message |-> request.message, turns |-> Len(request.history)]
                  ELSE earlier
    /\ UNCHANGED <<caller, state, ret, selection, router_input, llm_out,
                   fault, tool_arg, trace, raised, request, llm_calls, prompt>>
    /\ UNCHANGED <<now, searchVars, weatherVars, rt, extVars>>

AgentNext ==
    \/ ProcessMessage
    \/ CallNode
    \/ Route
    \/ RetrieveDocuments
    \/ PerformWebSearch
    \/ GetWeatherNode
    \/ Respond
    \/ Return

SearchIdle ==
    /\ scache = <<>>
    /\ sconf = [api_key |-> TRUE, search_engine_id |-> TRUE]
    /\ scall = None
    /\ sstored = <<>>

WeatherIdle ==
    /\ wcache = <<>>
    /\ wkey = TRUE
    /\ wcall = None
    /\ wfetched = <<>>

\* the two DocumentRetriever objects of the process: the one api.py creates
\* and the one the agent creates for itself
Retrievers == {"api", "agent"}

\* DocumentRetriever.__init__: no index, no documents
NewRetriever == [vector_store |-> None, documents |-> <<>>]

\* the state of the HTTP layer and of the retrievers before any request
ApiIdle ==
    /\ dir = {}
    /\ disk = None
    /\ retr = [r \in Retrievers |-> NewRetriever]
    /\ dcall = None
    /\ http = None

\* the endpoints of main.py
MainEndpoints == {"/", "/api/chat", "/api/weather", "/api/health"}

\* the limiter has counted nothing and no request was answered
MainIdle ==
    /\ hits = [e \in MainEndpoints |-> 0]
    /\ mresp = None

\* the threads that call a shared adapter
Threads == {"t1", "t2"}

\* a thread that is in no call
IdleThread ==
    [op |-> "idle", key |-> <<>>, pc |-> "idle", saw |-> "none",
     raced |-> FALSE, fetches |-> 0, outcome |-> "none", result |-> None,
     src |-> None]

\* no call is running, no page is cached and no fetch has written an entry
ConcIdle ==
    /\ th = [c \in Threads |-> IdleThread]
    /\ pcache = <<>>
    /\ wrote = [search |-> <<>>, get_weather |-> <<>>, get_webpage_content |-> <<>>]

\* no history is being converted
ConvIdle == conv = None

ExtIdle == ApiIdle /\ MainIdle /\ ConcIdle /\ ConvIdle

Init == AgentInit /\ now = 0 /\ SearchIdle /\ WeatherIdle /\ rt = None /\ ExtIdle
Next == AgentNext
Spec == Init /\ [][Next]_vars

\* the conversion of process_message, lines 325-342, on histories of up to
\* MaxTurns entries
MaxTurns == 2
ConvHistories ==
    UNION {[1..n -> [role : Roles, content : Contents]] : n \in 0..MaxTurns}

ConvInputs ==
    conv \in {[message |-> m, history |-> h, messages |-> <<>>, converted |-> FALSE] :
                 m \in Contents, h \in ConvHistories}

Convert ==
    /\ ~conv.converted
    /\ conv' = [conv EXCEPT
                   !.messages = InitialState(conv.message, conv.history).messages,
                   !.converted = TRUE]
    /\ UNCHANGED <<agentVars, now, searchVars, weatherVars, rt, apiVars,
                   mainVars, concVars>>

ConvNext == Convert
InitConvert == AgentInit /\ now = 0 /\ SearchIdle /\ WeatherIdle /\ rt = None
                  /\ ApiIdle /\ MainIdle /\ ConcIdle /\ ConvInputs
SpecConvert == InitConvert /\ [][ConvNext]_vars

\* the agent with the exceptions process_message catches
ProcessNext ==
    \/ AgentNext
    \/ ProcessMessageBadHistory
    \/ WorkflowRaises
SpecProcess == Init /\ [][ProcessNext]_vars

(***************************************************************************)
(* SearchResult and WebSearcher (src/src/web_search.py)                    *)
(***************************************************************************)

\* Bounds of the search model
MaxStamp == 1
MaxItems == 2
MaxSearchClock == 1440

\* timedelta(hours=24), in minutes
SearchCacheHours == 24
SearchCacheDuration == SearchCacheHours * 60

\* a datetime: the minute and the microsecond within it
DateTime(m, u) == [min |-> m, usec |-> u]
Usecs == {0, 5}

IsoFormatNoFraction(dt) == [text |-> <<dt.min>>]

\* datetime.isoformat(): the fraction is written only when it is not zero
IsoFormat(dt) ==
    IF dt.usec = 0 THEN [text |-> <<dt.min>>]
    ELSE [text |-> <<dt.min, dt.usec>>]

\* datetime.fromisoformat(): a missing fraction reads as zero
FromIsoFormat(s) ==
    [min |-> s.text[1], usec |-> IF Len(s.text) > 1 THEN s.text[2] ELSE 0]

SearchResult(t, u, sn, so, ts) ==
    [title |-> t, url |-> u, snippet |-> sn, source |-> so, timestamp |-> ts]

\* SearchResult.to_dict
ToDict(r) ==
    [title |-> r.title, url |-> r.url, snippet |-> r.snippet,
     source |-> r.source,
     timestamp |-> IF r.timestamp # None THEN IsoFormat(r.timestamp) ELSE None]

\* dict.get(key, default)
Get(d, k, default) == IF k \in DOMAIN d THEN d[k] ELSE default

\* SearchResult.from_dict
FromDict(d) ==
    SearchResult(Get(d, "title", ""), Get(d, "url", ""), Get(d, "snippet", ""),
                 Get(d, "source", "web"),
                 IF Get(d, "timestamp", None) # None
                 THEN FromIsoFormat(d["timestamp"]) ELSE None)

Titles == {"", "t1", "t2"}
Urls == {"", "http://u"}
Snippets == {"", "s"}
Sources == {"web", "google", "duckduckgo"}
Stamps == {None} \cup {DateTime(m, u) : m \in 0..MaxStamp, u \in Usecs}
SearchResultValues ==
    {SearchResult(t, u, sn, so, ts) :
        t \in Titles, u \in Urls, sn \in Snippets, so \in Sources, ts \in Stamps}

\* to_dict followed by from_dict, twice
RoundTrip ==
    /\ \E r \in SearchResultValues :
          LET back == FromDict(ToDict(r))
          IN  rt' = [value |-> r, dict |-> ToDict(r), back |-> back,
                     again |-> FromDict(ToDict(back))]
    /\ UNCHANGED <<agentVars, now, searchVars, weatherVars, extVars>>

ResultNext == RoundTrip
SpecResult == Init /\ [][ResultNext]_vars

\* ---- WebSearcher ----
Queries == {"q1"}
NumResults == {1, 2}

\* cache_key = f"search_{query}_{num_results}"
SearchKey(q, n) == <<"search", q, n>>

\* what an upstream page carries: up to MaxItems entries
ItemTitles == {"t1"}
Item(t, c) == [title |-> t, link |-> "http://u", snippet |-> "s", complete |-> c]
Pages ==
    UNION {[1..k -> {Item(t, TRUE) : t \in ItemTitles} \cup {Item("t1", FALSE)}] :
              k \in 0..MaxItems}

Min(a, b) == IF a < b THEN a ELSE b
Head_n(seq, n) == SubSeq(seq, 1, Min(Len(seq), n))
RECURSIVE Complete(_)
Complete(seq) ==
    IF seq = <<>> THEN <<>>
    ELSE IF seq[1].complete THEN <<seq[1]>> \o Complete(Tail(seq))
    ELSE Complete(Tail(seq))

\* _search_with_api: the first num_results items, source google
ApiResults(page, n, at) ==
    LET items == Head_n(page, n)
    IN  [i \in 1..Len(items) |->
            SearchResult(items[i].title, items[i].link, items[i].snippet, "google", at)]

\* _search_with_scraping: of the first num_results elements those that have
\* a title and a url, source duckduckgo
ScrapingResults(page, n, at) ==
    LET items == Complete(Head_n(page, n))
    IN  [i \in 1..Len(items) |->
            SearchResult(items[i].title, items[i].link, items[i].snippet, "duckduckgo", at)]

AttemptResults(kind, page, n, at) ==
    IF kind = "api" THEN ApiResults(page, n, at) ELSE ScrapingResults(page, n, at)

FirstAttemptIgnoresEngine(use_api) ==
    IF use_api /\ sconf.api_key THEN "api" ELSE "scraping"

\* line 88: the strategy of the first attempt
FirstAttempt(use_api) ==
    IF use_api /\ sconf.api_key /\ sconf.search_engine_id THEN "api" ELSE "scraping"

SearchFreshInclusive(key) ==
    /\ key \in DOMAIN scache
    /\ now - scache[key].timestamp <= SearchCacheDuration

\* lines 81-83: the key is cached and younger than cache_duration
SearchFresh(key) ==
    /\ key \in DOMAIN scache
    /\ now - scache[key].timestamp < SearchCacheDuration

SearchStoreEvicting(key, results) ==
    (key :> [results |-> [i \in 1..Len(results) |-> ToDict(results[i])],
             timestamp |-> now]) @@
    [k \in {j \in DOMAIN scache : SearchFresh(j)} |-> scache[k]]

\* lines 95-98: the entry written after a successful first attempt
SearchStore(key, results) ==
    (key :> [results |-> [i \in 1..Len(results) |-> ToDict(results[i])],
             timestamp |-> now]) @@ scache

CachedResultsRaw(key) == scache[key].results

\* line 85: what a cache hit returns
CachedResults(key) ==
    [i \in 1..Len(scache[key].results) |-> FromDict(scache[key].results[i])]

\* an upstream attempt of a call: its strategy and whether it succeeded
Attempt(kind, ok) == [kind |-> kind, ok |-> ok]

\* the record of a search call: its arguments, the upstream attempts it
\* made, what it returned, and the store that preceded it for its arguments
SearchCall(q, n, use_api, hit, attempts, outcome, results) ==
    [query |-> q, num_results |-> n, use_api |-> use_api, hit |-> hit,
     attempts |-> attempts, outcome |-> outcome, results |-> results,
     prior |-> IF <<q, n>> \in DOMAIN sstored THEN sstored[<<q, n>>] ELSE None]

SearchInit ==
    /\ now = 0
    /\ scache = <<>>
    /\ sconf \in [api_key : BOOLEAN, search_engine_id : BOOLEAN]
    /\ scall = None
    /\ sstored = <<>>

\* search(): answered from the cache
SearchHit ==
    /\ \E q \in Queries, n \in NumResults, use_api \in BOOLEAN :
          /\ SearchFresh(SearchKey(q, n))
          /\ scall' = SearchCall(q, n, use_api, TRUE, <<>>, "returned",
                                 CachedResults(SearchKey(q, n)))
    /\ UNCHANGED <<scache, sconf, sstored>>
    /\ UNCHANGED <<agentVars, now, weatherVars, rt, extVars>>

\* search(): the first attempt succeeds, its results are cached and returned
SearchMiss ==
    /\ \E q \in Queries, n \in NumResults, use_api \in BOOLEAN,
          page \in Pages, u \in Usecs :
          LET key == SearchKey(q, n)
              kind == FirstAttempt(use_api)
              results == AttemptResults(kind, page, n, DateTime(now, u))
          IN  /\ ~SearchFresh(key)
              /\ scache' = SearchStore(key, results)
              /\ sstored' = (<<q, n>> :> [results |-> results, at |-> now]) @@ sstored
              /\ scall' = SearchCall(q, n, use_api, FALSE, <<Attempt(kind, TRUE)>>,
                                     "returned", results)
    /\ UNCHANGED sconf
    /\ UNCHANGED <<agentVars, now, weatherVars, rt, extVars>>

SearchExceptCaching(use_api, kind, ok, results) ==
    IF use_api
    THEN [attempts |-> <<Attempt(kind, FALSE), Attempt("scraping", ok)>>,
          outcome |-> IF ok THEN "returned" ELSE "raised",
          results |-> IF ok THEN results ELSE <<>>,
          stored |-> ok]
    ELSE [attempts |-> <<Attempt(kind, FALSE)>>,
          outcome |-> "raised", results |-> <<>>, stored |-> FALSE]

\* lines 102-107, the except branch of search: the first attempt, of the
\* given kind, raised.  With use_api scraping is called and what it returns
\* is returned as it is, or its exception leaves; without, the exception is
\* raised again.  Nothing is assigned to self.cache.
SearchExcept(use_api, kind, ok, results) ==
    IF use_api
    THEN [attempts |-> <<Attempt(kind, FALSE), Attempt("scraping", ok)>>,
          outcome |-> IF ok THEN "returned" ELSE "raised",
          results |-> IF ok THEN results ELSE <<>>,
          stored |-> FALSE]
    ELSE [attempts |-> <<Attempt(kind, FALSE)>>,
          outcome |-> "raised", results |-> <<>>, stored |-> FALSE]

\* a search call whose first attempt raised
SearchFailedFirst(q, n, use_api, ok, results) ==
    LET e == SearchExcept(use_api, FirstAttempt(use_api), ok, results)
    IN  /\ ~SearchFresh(SearchKey(q, n))
        /\ scall' = SearchCall(q, n, use_api, FALSE, e.attempts, e.outcome,
                               e.results)
        /\ scache' = IF e.stored THEN SearchStore(SearchKey(q, n), e.results)
                     ELSE scache
        /\ sstored' = IF e.stored
                      THEN (<<q, n>> :> [results |-> e.results, at |-> now]) @@ sstored
                      ELSE sstored

\* search(): the first attempt raises; with use_api scraping is tried and
\* its results are returned, or its exception leaves search()
SearchFallback ==
    /\ \E q \in Queries, n \in NumResults, page \in Pages, u \in Usecs,
          ok \in BOOLEAN :
          SearchFailedFirst(q, n, TRUE, ok,
                            ScrapingResults(page, n, DateTime(now, u)))
    /\ UNCHANGED sconf
    /\ UNCHANGED <<agentVars, now, weatherVars, rt, extVars>>

\* search(use_api=False): the only attempt raises and the exception leaves
SearchRaise ==
    /\ \E q \in Queries, n \in NumResults :
          SearchFailedFirst(q, n, FALSE, FALSE, <<>>)
    /\ UNCHANGED sconf
    /\ UNCHANGED <<agentVars, now, weatherVars, rt, extVars>>

\* the instants the clock of the search model takes
SearchInstants ==
    {t \in 0..MaxSearchClock :
        t % SearchCacheDuration \in {0, 1, SearchCacheDuration - 1}}

\* time passes between two calls; the value the last call returned is gone
SearchTick ==
    /\ \E t \in SearchInstants : t > now /\ now' = t
    /\ scall' = None
    /\ UNCHANGED <<scache, sconf, sstored>>
    /\ UNCHANGED <<agentVars, weatherVars, rt, extVars>>

SearchNext ==
    \/ SearchHit
    \/ SearchMiss
    \/ SearchFallback
    \/ SearchRaise
    \/ SearchTick

InitSearch == AgentInit /\ SearchInit /\ WeatherIdle /\ rt = None /\ ExtIdle
SpecSearch == InitSearch /\ [][SearchNext]_vars

(***************************************************************************)
(* WeatherService (src/src/weather.py)                                     *)
(***************************************************************************)

\* Bound of the weather model
MaxWeatherClock == 31

\* timedelta(minutes=30)
WeatherCacheMinutes == 30

Locations == {"Napa,CA,US", "Paris,FR"}

\* temperatures the upstream reports, in tenths of a degree Fahrenheit
RawTemps == {494, 495, 805, 806}

\* round(): to the nearest integer, a half to the even neighbour
Round(tenths) ==
    LET q == tenths \div 10
        r == tenths % 10
    IN  IF r < 5 THEN q
        ELSE IF r > 5 THEN q + 1
        ELSE IF q % 2 = 0 THEN q ELSE q + 1

\* lines 69-80: the record built from an upstream response
WeatherInfo(loc, raw) ==
    [location |-> loc, temperature |-> Round(raw), feels_like |-> Round(raw),
     humidity |-> 40, wind_speed |-> 3, description |-> "Clear sky",
     icon |-> "01d", sunrise |-> "06:00", sunset |-> "18:00",
     timestamp |-> now]

MissingKeyError == [error |-> "Weather service is not properly configured. Missing API key."]
RequestError == [error |-> "Failed to fetch weather data: RequestException"]
ParseError == [error |-> "Failed to parse weather data. The API response format may have changed."]

\* cache_key = f"weather_{location}"
WeatherKey(loc) == <<"weather", loc>>

WeatherFreshInclusive(loc) ==
    /\ WeatherKey(loc) \in DOMAIN wcache
    /\ now - wcache[WeatherKey(loc)].timestamp <= WeatherCacheMinutes

\* lines 48-50: the location is cached and younger than cache_duration
WeatherFresh(loc) ==
    /\ WeatherKey(loc) \in DOMAIN wcache
    /\ now - wcache[WeatherKey(loc)].timestamp < WeatherCacheMinutes

WeatherStoreNothing(loc, info) == wcache

\* lines 83-86: the entry written after a successful fetch
WeatherStore(loc, info) ==
    (WeatherKey(loc) :> [data |-> info, timestamp |-> now]) @@ wcache

\* what the upstream request of one call can do
FetchOutcomes == {"ok", "request_error", "parse_error", "other_error"}

GetWeatherOutcomeKeyUnchecked(loc, fetch) ==
    IF WeatherFresh(loc) THEN "hit"
    ELSE fetch

\* get_weather as a relation: given the location and what the upstream does
\* if asked, the outcome, the value returned and the cache afterwards
GetWeatherOutcome(loc, fetch) ==
    IF ~wkey THEN "no_key"
    ELSE IF WeatherFresh(loc) THEN "hit"
    ELSE fetch

GetWeatherReturn(loc, fetch, raw) ==
    LET o == GetWeatherOutcome(loc, fetch)
    IN  CASE o = "no_key" -> MissingKeyError
          [] o = "hit" -> wcache[WeatherKey(loc)].data
          [] o = "ok" -> WeatherInfo(loc, raw)
          [] o = "request_error" -> RequestError
          [] o = "parse_error" -> ParseError
          [] o = "other_error" -> None

GetWeatherCache(loc, fetch, raw) ==
    IF GetWeatherOutcome(loc, fetch) = "ok"
    THEN WeatherStore(loc, WeatherInfo(loc, raw))
    ELSE wcache

Chilled == " It's quite warm - a chilled white or rose wine would be refreshing!"
BoldRed == " It's a bit chilly - perfect for a bold red wine to warm you up!"
MediumBodied == " The weather is pleasant - a nice medium-bodied wine would be perfect!"

AdviceInclusive(temp) ==
    IF temp >= 80 THEN Chilled
    ELSE IF temp <= 50 THEN BoldRed
    ELSE MediumBodied

\* lines 122-128: the sentence appended for the temperature
Advice(temp) ==
    IF temp > 80 THEN Chilled
    ELSE IF temp < 50 THEN BoldRed
    ELSE MediumBodied

SummaryKeys == {"location", "description", "temperature", "feels_like",
                "humidity", "wind_speed", "sunrise", "sunset"}

\* lines 109-134: the text of the summary, as the pieces it is made of
FormatSummary(weather) ==
    IF "error" \in DOMAIN weather
    THEN [head |-> "I couldn't retrieve the weather information.",
          detail |-> weather["error"], advice |-> <<>>]
    ELSE IF ~(SummaryKeys \subseteq DOMAIN weather)
    THEN [head |-> "I couldn't format the weather information properly. Please try again later.",
          advice |-> <<>>]
    ELSE [head |-> "Current weather in",
          location |-> weather["location"],
          description |-> weather["description"],
          temperature |-> weather["temperature"],
          feels_like |-> weather["feels_like"],
          humidity |-> weather["humidity"],
          wind_speed |-> weather["wind_speed"],
          sunrise |-> weather["sunrise"],
          sunset |-> weather["sunset"],
          advice |-> <<Advice(weather["temperature"])>>]

\* the record of a call: the method, the location, whether the upstream was
\* asked, the outcome, the values returned, and the last successful fetch
\* for the location before the call
WeatherCall(method, loc, outcome, payload, summary) ==
    [method |-> method, location |-> loc,
     fetched |-> outcome \in FetchOutcomes,
     outcome |-> outcome, payload |-> payload, summary |-> summary,
     prior |-> IF loc \in DOMAIN wfetched THEN wfetched[loc] ELSE None]

WeatherInit ==
    /\ now = 0
    /\ wcache = <<>>
    /\ wkey \in BOOLEAN
    /\ wcall = None
    /\ wfetched = <<>>

WeatherStep(method, loc, fetch, raw) ==
    LET o == GetWeatherOutcome(loc, fetch)
        payload == GetWeatherReturn(loc, fetch, raw)
    IN  /\ wcache' = GetWeatherCache(loc, fetch, raw)
        /\ wfetched' = IF o = "ok"
                       THEN (loc :> [payload |-> payload, at |-> now]) @@ wfetched
                       ELSE wfetched
        /\ wcall' = WeatherCall(method, loc, o, payload,
                                IF method = "get_weather_summary" /\ payload # None
                                THEN FormatSummary(payload) ELSE None)

\* get_weather(location)
GetWeather ==
    /\ \E loc \in Locations, fetch \in FetchOutcomes, raw \in RawTemps :
          WeatherStep("get_weather", loc, fetch, raw)
    /\ UNCHANGED wkey
    /\ UNCHANGED <<agentVars, now, searchVars, rt, extVars>>

\* get_weather_summary(location): get_weather, then the text
GetWeatherSummary ==
    /\ \E loc \in Locations, fetch \in FetchOutcomes, raw \in RawTemps :
          WeatherStep("get_weather_summary", loc, fetch, raw)
    /\ UNCHANGED wkey
    /\ UNCHANGED <<agentVars, now, searchVars, rt, extVars>>

\* the instants the clock of the weather model takes
WeatherInstants ==
    {t \in 0..MaxWeatherClock :
        t % WeatherCacheMinutes \in {0, 1, WeatherCacheMinutes - 1}}

\* time passes between two calls; the value the last call returned is gone
WeatherTick ==
    /\ \E t \in WeatherInstants : t > now /\ now' = t
    /\ wcall' = None
    /\ UNCHANGED <<wcache, wkey, wfetched>>
    /\ UNCHANGED <<agentVars, searchVars, rt, extVars>>

WeatherNext ==
    \/ GetWeather
    \/ GetWeatherSummary
    \/ WeatherTick

InitWeather == AgentInit /\ WeatherInit /\ SearchIdle /\ rt = None /\ ExtIdle
SpecWeather == InitWeather /\ [][WeatherNext]_vars


(***************************************************************************)
(* The DocumentRetriever (src/src/document_retriever.py) and the HTTP      *)
(* layer of src/src/api.py                                                 *)
(***************************************************************************)

\* the extensions load_documents looks for, in the order of its loop
LoaderExts == <<".txt", ".md", ".pdf", ".docx", ".pptx", ".xlsx", ".csv">>

\* the data directories considered: at most one file of an extension
Dirs == SUBSET {".txt", ".pdf"}

\* the extensions whose loader can raise
Breakable == {".pdf"}

\* lines 64-81: the documents of the extensions whose loader did not raise,
\* in the order of the loop
RECURSIVE LoadedFrom(_, _, _)
LoadedFrom(i, d, bad) ==
    IF i > Len(LoaderExts) THEN <<>>
    ELSE (IF LoaderExts[i] \in d /\ LoaderExts[i] \notin bad
          THEN <<LoaderExts[i]>> ELSE <<>>) \o LoadedFrom(i + 1, d, bad)

LoadedDocs(d, bad) == LoadedFrom(1, d, bad)

\* load_documents: self.documents becomes what was loaded
load_documents(r, loaded) == [r EXCEPT !.documents = loaded]

\* a FAISS index, as the chunks it was built from
Index(chunks) == [chunks |-> chunks]

\* create_vector_store(): loads when no documents are held, splits (which
\* loads once more when there are still none) and builds the index; the
\* build raises when the embedding fails or when there is nothing to embed
create_vector_store(r, loaded, build_ok) ==
    LET r1 == IF r.documents = <<>> THEN load_documents(r, loaded) ELSE r
    IN  IF build_ok /\ r1.documents # <<>>
        THEN [retriever |-> [r1 EXCEPT !.vector_store = Index(r1.documents)],
              raised |-> FALSE]
        ELSE [retriever |-> r1, raised |-> TRUE]

\* save_vector_store(): nothing without an index, else the index is written
save_vector_store(r, d, save_ok) ==
    IF r.vector_store = None THEN [disk |-> d, raised |-> FALSE]
    ELSE IF save_ok THEN [disk |-> r.vector_store, raised |-> FALSE]
    ELSE [disk |-> d, raised |-> TRUE]

\* load_vector_store(): True and the saved index, or False on any exception
load_vector_store(r, load_ok) ==
    IF disk # None /\ load_ok
    THEN [retriever |-> [r EXCEPT !.vector_store = disk], loaded |-> TRUE]
    ELSE [retriever |-> r, loaded |-> FALSE]

\* k of similarity_search
TopK == 4

NeedsIndexAlways(r) == TRUE

\* line 176: similarity_search prepares an index only when it holds none
NeedsIndex(r) == r.vector_store = None

\* similarity_search as a relation: the steps taken, the retriever
\* afterwards, and the list returned (None when an exception left the call)
similarity_search(r, load_ok, loaded, build_ok, search_ok) ==
    LET l == load_vector_store(r, load_ok)
        c == create_vector_store(l.retriever, loaded, build_ok)
        prepared == IF ~NeedsIndex(r) THEN [retriever |-> r, steps |-> <<>>, raised |-> FALSE]
                    ELSE IF l.loaded
                    THEN [retriever |-> l.retriever, steps |-> <<"load_vector_store">>,
                          raised |-> FALSE]
                    ELSE [retriever |-> c.retriever,
                          steps |-> <<"load_vector_store", "create_vector_store">>,
                          raised |-> c.raised]
        chunks == prepared.retriever.vector_store.chunks
    IN  IF prepared.raised
        THEN [retriever |-> prepared.retriever, steps |-> prepared.steps,
              raised |-> TRUE, results |-> None]
        ELSE [retriever |-> prepared.retriever,
              steps |-> Append(prepared.steps, "search"),
              raised |-> FALSE,
              results |-> IF search_ok
                          THEN [docs |-> SubSeq(chunks, 1, Min(TopK, Len(chunks)))]
                          ELSE [docs |-> <<>>]]

\* ---- api.py: exceptions, handlers and endpoints ----
HTTPException(code, detail) ==
    [kind |-> "HTTPException", status_code |-> code, detail |-> detail]
Exception(text) == [kind |-> "Exception", text |-> text]

GenericDetail == "An unexpected error occurred"

\* lines 166-171: a declared HTTP error keeps its status and its detail
http_exception_handler(exc) ==
    [handler |-> "http_exception_handler", status |-> exc.status_code,
     body |-> [detail |-> exc.detail]]

\* lines 173-179: anything else is a 500 with the fixed detail
global_exception_handler(exc) ==
    [handler |-> "global_exception_handler", status |-> 500,
     body |-> [detail |-> GenericDetail]]

\* the handler registered for the class of the exception
HandleException(exc) ==
    IF exc.kind = "HTTPException" THEN http_exception_handler(exc)
    ELSE global_exception_handler(exc)

\* the except branch every endpoint of api.py ends with:
\* raise HTTPException(status_code=500, detail=str(e))
EndpointCatch(exc) == HTTPException(500, exc.text)

\* the response to a request whose endpoint returned body
HttpOk(endpoint, body) ==
    [endpoint |-> endpoint, error |-> None, handler |-> "none",
     status |-> 200, body |-> body]

\* the response to a request whose endpoint raised exc, inside its try block
\* or outside of any
HttpError(endpoint, exc, in_try) ==
    LET h == HandleException(IF in_try THEN EndpointCatch(exc) ELSE exc)
    IN  [endpoint |-> endpoint, error |-> exc, handler |-> h.handler,
         status |-> h.status, body |-> h.body]

ExcTexts == {"upstream unreachable"}

\* GET /: the template is rendered outside of any try block
ReadRoot ==
    /\ \E ok \in BOOLEAN :
          http' = IF ok THEN HttpOk("/", [html |-> "index.html"])
                  ELSE HttpError("/", Exception("index.html"), FALSE)
    /\ dcall' = None
    /\ UNCHANGED <<dir, disk, retr>>
    /\ UNCHANGED notApiVars

\* the message lists a chat request carries
\* Message (lines 57-59) and the bodies of a ChatRequest (lines 61-63)
Message(role, content) == [cls |-> "Message", role |-> role, content |-> content]
ChatRoles == {"user"}
ChatMessages ==
    UNION {[1..n -> {Message(r, c) : r \in ChatRoles, c \in Contents}] :
              n \in 0..MaxHistory + 1}

\* what process_message hands back: its result or its error dictionary
ChatResults ==
    {[response |-> "reply", context |-> "", tool_used |-> NoneStr],
     [response |-> ProcessError]}

\* messages[:-1]
AllButLast(seq) == SubSeq(seq, 1, Len(seq) - 1)

ChatCallWholeList(msgs) ==
    [message |-> msgs[Len(msgs)].content,
     history |-> [i \in 1..Len(msgs) |->
                     [role |-> msgs[i].role, content |-> msgs[i].content]]]

\* lines 87-96: the arguments chat calls agent.process_message with
ChatCall(msgs) ==
    [message |-> msgs[Len(msgs)].content,
     history |-> [i \in 1..Len(AllButLast(msgs)) |->
                     [role |-> AllButLast(msgs)[i].role,
                      content |-> AllButLast(msgs)[i].content]]]

\* a chat request, the call of the agent it led to (None if none) and the
\* response it got
ChatExchange(msgs, call, response) ==
    ("request" :> msgs) @@ ("agent_call" :> call) @@ response

\* POST /api/chat: messages[-1] of an empty list raises IndexError at line
\* 93, before the agent is called
Chat ==
    /\ \E msgs \in ChatMessages, res \in ChatResults :
          http' = IF msgs = <<>>
                  THEN ChatExchange(msgs, None,
                          HttpError("/api/chat",
                                    Exception("list index out of range"), TRUE))
                  ELSE ChatExchange(msgs, ChatCall(msgs), HttpOk("/api/chat", res))
    /\ dcall' = None
    /\ UNCHANGED <<dir, disk, retr>>
    /\ UNCHANGED notApiVars

\* GET /api/weather: the summary, or the exception get_weather_summary let out
ApiWeather ==
    /\ \E w \in WeatherInfos, ok \in BOOLEAN, e \in ExcTexts :
          http' = IF ok THEN HttpOk("/api/weather", [weather |-> w])
                  ELSE HttpError("/api/weather", Exception(e), TRUE)
    /\ dcall' = None
    /\ UNCHANGED <<dir, disk, retr>>
    /\ UNCHANGED notApiVars

\* GET /api/search: the results, or the exception search let out
ApiSearch ==
    /\ \E n \in 0..MaxItems, ok \in BOOLEAN, e \in ExcTexts :
          http' = IF ok
                  THEN HttpOk("/api/search",
                              [results |-> [i \in 1..n |->
                                  [title |-> "t1", url |-> "u1", snippet |-> ""]]])
                  ELSE HttpError("/api/search", Exception(e), TRUE)
    /\ dcall' = None
    /\ UNCHANGED <<dir, disk, retr>>
    /\ UNCHANGED notApiVars

\* GET /api/health
HealthCheck ==
    /\ http' = HttpOk("/api/health",
                      [status |-> "ok", service |-> "wine-concierge", version |-> "1.0.0"])
    /\ dcall' = None
    /\ UNCHANGED <<dir, disk, retr>>
    /\ UNCHANGED notApiVars

UploadBuildsAlways(documents) == TRUE

\* line 127: the index is built and saved only when documents were loaded
UploadBuilds(documents) == documents # <<>>

\* the body of upload_documents on the retriever r of api.py: the retriever
\* and the saved index afterwards, the retriever methods called, and the
\* value returned or the exception raised
upload_documents(r, loaded, build_ok, save_ok) ==
    LET r1 == load_documents(r, loaded)
        c == create_vector_store(r1, loaded, build_ok)
        w == save_vector_store(c.retriever, disk, save_ok)
    IN  IF ~UploadBuilds(loaded)
        THEN [retriever |-> r1, disk |-> disk, steps |-> <<"load_documents">>,
              raised |-> FALSE,
              value |-> [message |-> "No documents found in the data directory",
                         document_count |-> 0]]
        ELSE IF c.raised
        THEN [retriever |-> c.retriever, disk |-> disk,
              steps |-> <<"load_documents", "create_vector_store">>,
              raised |-> TRUE, value |-> Exception("embedding failed")]
        ELSE IF w.raised
        THEN [retriever |-> c.retriever, disk |-> disk,
              steps |-> <<"load_documents", "create_vector_store", "save_vector_store">>,
              raised |-> TRUE, value |-> Exception("index not written")]
        ELSE [retriever |-> c.retriever, disk |-> w.disk,
              steps |-> <<"load_documents", "create_vector_store", "save_vector_store">>,
              raised |-> FALSE,
              value |-> [message |-> "Successfully processed documents",
                         document_count |-> Len(loaded)]]

\* the record of a retriever call: the method, its object, the methods it
\* called in order, what it found and what it returned, and the index held
\* and saved before it
RetrieverCall(op, r, u, loaded) ==
    [op |-> op, retriever |-> r, steps |-> u.steps, raised |-> u.raised,
     loaded |-> loaded,
     before |-> [vector_store |-> retr[r].vector_store, disk |-> disk]]

\* POST /api/documents/upload
UploadDocuments ==
    /\ \E bad \in SUBSET Breakable, build_ok \in BOOLEAN, save_ok \in BOOLEAN :
          LET loaded == LoadedDocs(dir, bad)
              u == upload_documents(retr["api"], loaded, build_ok, save_ok)
          IN  /\ retr' = [retr EXCEPT !["api"] = u.retriever]
              /\ disk' = u.disk
              /\ dcall' = RetrieverCall("upload_documents", "api", u, loaded)
              /\ http' = IF u.raised
                         THEN HttpError("/api/documents/upload", u.value, TRUE)
                         ELSE HttpOk("/api/documents/upload", u.value)
    /\ UNCHANGED dir
    /\ UNCHANGED notApiVars

\* similarity_search(query) on one of the retrievers
SimilaritySearch ==
    /\ \E r \in Retrievers, bad \in SUBSET Breakable, load_ok \in BOOLEAN,
          build_ok \in BOOLEAN, search_ok \in BOOLEAN :
          LET loaded == LoadedDocs(dir, bad)
              u == similarity_search(retr[r], load_ok, loaded, build_ok, search_ok)
          IN  /\ retr' = [retr EXCEPT ![r] = u.retriever]
              /\ dcall' = [RetrieverCall("similarity_search", r, u, loaded)
                              EXCEPT !.loaded = <<>>] @@
                          [results |-> u.results, search_ok |-> search_ok,
                           load_ok |-> load_ok /\ disk # None]
    /\ http' = None
    /\ UNCHANGED <<dir, disk>>
    /\ UNCHANGED notApiVars

\* files appear in the data directory or disappear from it
ChangeDirectory ==
    /\ \E d \in Dirs : d # dir /\ dir' = d
    /\ dcall' = None
    /\ http' = None
    /\ UNCHANGED <<disk, retr>>
    /\ UNCHANGED notApiVars

ApiNext ==
    \/ ReadRoot
    \/ Chat
    \/ ApiWeather
    \/ UploadDocuments
    \/ ApiSearch
    \/ HealthCheck
    \/ SimilaritySearch
    \/ ChangeDirectory

InitApi == AgentInit /\ now = 0 /\ SearchIdle /\ WeatherIdle /\ rt = None
              /\ ExtIdle
SpecApi == InitApi /\ [][ApiNext]_vars

(***************************************************************************)
(* The rate limited application of src/src/main.py and the handler of      *)
(* src/src/rate_limiter.py                                                 *)
(***************************************************************************)

\* @limiter.limit("10/minute") of chat, @limiter.limit("30/minute") of
\* get_weather
ChatLimit == 10
WeatherLimit == 30

\* the limit the decorator of an endpoint states (0 where there is none)
EndpointLimit(e) ==
    CASE e = "/api/chat" -> ChatLimit
      [] e = "/api/weather" -> WeatherLimit
      [] OTHER -> 0

\* the text of the limit that was exceeded
LimitText(e, configured) ==
    IF configured THEN "settings"
    ELSE IF e = "/api/chat" THEN "10/minute" ELSE "30/minute"

\* str() of a natural number, as its decimal digits
Digit == <<"0", "1", "2", "3", "4", "5", "6", "7", "8", "9">>
RECURSIVE Str(_)
Str(n) == IF n < 10 THEN <<Digit[n + 1]>>
          ELSE Str(n \div 10) \o <<Digit[(n % 10) + 1]>>

\* the exception the limiter raises: the limit, the seconds to wait and the
\* time the window ends
RateLimitExceeded(limit, retry_after, reset) ==
    [kind |-> "RateLimitExceeded", status_code |-> 429, detail |-> limit,
     limit |-> limit, retry_after |-> retry_after, reset |-> reset]

\* rate_limiter.py lines 34-54
rate_limit_exceeded_handler(exc) ==
    [handler |-> "rate_limit_exceeded_handler",
     status |-> 429,
     body |-> [detail |-> <<"Rate limit exceeded: ", exc.detail>>,
               retry_after |-> Str(exc.retry_after) \o <<" seconds">>,
               limits |-> [limit |-> exc.limit, remaining |-> 0,
                           reset |-> exc.reset]],
     headers |-> ("Retry-After" :> Str(exc.retry_after)) @@
                 ("X-RateLimit-Limit" :> <<exc.limit>>) @@
                 ("X-RateLimit-Remaining" :> <<"0">>) @@
                 ("X-RateLimit-Reset" :> Str(exc.reset))]

MainGenericDetail == "An unexpected error occurred. Please try again later."

\* main.py lines 118-124
main_http_exception_handler(exc) ==
    [handler |-> "http_exception_handler", status |-> exc.status_code,
     body |-> [detail |-> exc.detail], headers |-> <<>>]

\* main.py lines 126-133
main_global_exception_handler(exc) ==
    [handler |-> "global_exception_handler", status |-> 500,
     body |-> [detail |-> MainGenericDetail], headers |-> <<>>]

MainHandleExceptionUnregistered(exc) ==
    CASE exc.kind \in {"RateLimitExceeded", "HTTPException"} ->
            main_http_exception_handler(exc)
      [] OTHER -> main_global_exception_handler(exc)

\* the handler registered for the class of the exception (lines 67, 118,
\* 126)
MainHandleException(exc) ==
    CASE exc.kind = "RateLimitExceeded" -> rate_limit_exceeded_handler(exc)
      [] exc.kind = "HTTPException" -> main_http_exception_handler(exc)
      [] OTHER -> main_global_exception_handler(exc)

\* the except branch of an endpoint of main.py: a fixed status and detail
MainEndpointError(e) ==
    CASE e = "/" ->
            HTTPException(500, "Error loading the application. Please try again later.")
      [] e = "/api/chat" ->
            HTTPException(500, "An error occurred while processing your request.")
      [] e = "/api/weather" ->
            HTTPException(500, "Unable to fetch weather information. Please try again later.")
      [] e = "/api/health" -> HTTPException(503, "Service is not healthy")

\* the placeholder value an endpoint of main.py returns
MainEndpointValue(e) ==
    CASE e = "/" -> [html |-> "index.html"]
      [] e = "/api/chat" ->
            [messages |-> <<[role |-> "assistant",
                             content |-> "I'm your wine concierge. How can I assist you with wine recommendations today?"]>>]
      [] e = "/api/weather" -> [weather |-> "sunny", temperature |-> 72]
      [] e = "/api/health" -> [status |-> "healthy", version |-> "1.0.0"]

\* Bound of the model of main.py: the minutes the clock runs
MaxMainClock == 1

\* the seconds left in the window, and the second at which it ends
RetryAfters == {1, 60}
WindowReset == (now + 1) * 60

\* the answer to a request that raised exc, in the limiter or in the endpoint
MainError(e, exc) ==
    LET h == MainHandleException(exc)
    IN  [endpoint |-> e, rejected |-> exc.kind = "RateLimitExceeded",
         error |-> exc, handler |-> h.handler, status |-> h.status,
         body |-> h.body, headers |-> h.headers]

MainOk(e) ==
    [endpoint |-> e, rejected |-> FALSE, error |-> None, handler |-> "none",
     status |-> 200, body |-> MainEndpointValue(e), headers |-> <<>>]

\* a request to endpoint e: the limiter rejects it when the limit of the
\* decorator is used up or when a limit taken from the settings is, else
\* the endpoint runs and returns its value or raises inside its try block
MainRequest(e) ==
    \E configured \in BOOLEAN, fails \in BOOLEAN, retry_after \in RetryAfters :
        LET used_up == EndpointLimit(e) > 0 /\ hits[e] >= EndpointLimit(e)
        IN  IF used_up \/ configured
            THEN /\ mresp' = MainError(e, RateLimitExceeded(
                                LimitText(e, ~used_up), retry_after, WindowReset))
                 /\ hits' = hits
            ELSE /\ mresp' = IF fails THEN MainError(e, MainEndpointError(e))
                             ELSE MainOk(e)
                 /\ hits' = IF EndpointLimit(e) > 0
                            THEN [hits EXCEPT ![e] = @ + 1] ELSE hits

MainReadRoot ==
    /\ MainRequest("/")
    /\ UNCHANGED <<now, notMainVars>>

MainChat ==
    /\ MainRequest("/api/chat")
    /\ UNCHANGED <<now, notMainVars>>

MainGetWeather ==
    /\ MainRequest("/api/weather")
    /\ UNCHANGED <<now, notMainVars>>

MainHealthCheck ==
    /\ MainRequest("/api/health")
    /\ UNCHANGED <<now, notMainVars>>

\* the minute of the limiter's window ends: what it counted is forgotten
WindowEnds ==
    /\ now < MaxMainClock
    /\ now' = now + 1
    /\ hits' = [e \in MainEndpoints |-> 0]
    /\ mresp' = None
    /\ UNCHANGED notMainVars

MainNext ==
    \/ MainReadRoot
    \/ MainChat
    \/ MainGetWeather
    \/ MainHealthCheck
    \/ WindowEnds

InitMain == AgentInit /\ now = 0 /\ SearchIdle /\ WeatherIdle /\ rt = None
               /\ ExtIdle
SpecMain == InitMain /\ [][MainNext]_vars

(***************************************************************************)
(* Threads calling one shared WebSearcher or one shared WeatherService:    *)
(* search and get_weather as the steps between which another call can run  *)
(***************************************************************************)

\* what the upstream answers in the concurrent model
ConcPages == {<<>>, <<Item("t1", TRUE)>>}
ConcTemps == {494, 806}

\* the pages get_webpage_content is asked for, the text extracted from a
\* response (as words) and the max_length of a call
ConcUrls == {"http://u"}
ConcTexts == {<<"w1", "w2">>, <<"w3">>}
MaxLengths == {1, 2}

\* the instants of its clock: the start and the ends of the two windows
ConcInstants == {0, WeatherCacheMinutes, SearchCacheDuration}

\* web_search.py line 80, weather.py line 47, web_search.py line 230: the
\* key of self.cache a call reads and writes.  A url that requests can fetch
\* starts with a scheme and a search key with "search_", so the entries of
\* get_webpage_content (pcache) and of search (scache) never share a key.
CacheKey(op, key) ==
    CASE op = "search" -> SearchKey(key[1], key[2])
      [] op = "get_weather" -> WeatherKey(key[1])
      [] op = "get_webpage_content" -> key[1]

\* the part of a call's arguments its upstream request is made for
FetchKey(op, key) ==
    IF op = "get_webpage_content" THEN <<key[1]>> ELSE key

\* an upstream fetch: the call it was made for, what it brought and when
Fetch(op, key, data) ==
    [op |-> op, key |-> FetchKey(op, key), data |-> data, at |-> now]

\* the fetch that wrote the entry a call reads
Writer(op, key) ==
    IF CacheKey(op, key) \in DOMAIN wrote[op]
    THEN wrote[op][CacheKey(op, key)]
    ELSE None

\* a fetch has written the entry of its key
Wrote(op, key, data) ==
    [wrote EXCEPT ![op] = (CacheKey(op, key) :> Fetch(op, key, data)) @@ @]

CacheAfterHitSliding(cache, key) ==
    [cache EXCEPT ![key].timestamp = now]

\* web_search.py lines 82-85, weather.py lines 49-52: a hit reads the entry
\* and returns; the cache a hit leaves behind
CacheAfterHit(cache, key) == cache

\* another thread is between its cache lookup and its store for the same key
OthersInFlight(c, op, key) ==
    \E d \in Threads \ {c} :
        th[d].op = op /\ th[d].key = key /\ th[d].pc = "fetching"

AfterMissJoins(c, op, key) ==
    IF OthersInFlight(c, op, key) THEN "joined" ELSE "fetching"

\* web_search.py line 87, weather.py line 54: a call that found no fresh
\* entry goes on to its own upstream request; the cache is the only thing
\* it has looked at
AfterMiss(c, op, key) == "fetching"

\* the call of a thread after its cache lookup
Looked(c, op, key, fresh, cached) ==
    IF fresh
    THEN [op |-> op, key |-> key, pc |-> "done", saw |-> "hit", raced |-> FALSE,
          fetches |-> 0, outcome |-> "returned", result |-> [value |-> cached],
          src |-> Writer(op, key)]
    ELSE [op |-> op, key |-> key, pc |-> AfterMiss(c, op, key), saw |-> "miss",
          raced |-> OthersInFlight(c, op, key),
          fetches |-> 0, outcome |-> "none", result |-> None, src |-> None]

\* the call of a thread when it returns or raises
Finished(call, fetches, outcome, value) ==
    [call EXCEPT !.pc = "done", !.fetches = fetches, !.outcome = outcome,
                 !.result = value]

\* the call of a thread whose own upstream request brought data
Produced(call, data) ==
    [call EXCEPT !.src = Fetch(call.op, call.key, data)]

\* search(query, num_results), lines 79-86: the cache lookup.  A behaviour
\* exercises one adapter, the two share nothing but the clock, and on the
\* WebSearcher one of the two methods, whose entries never share a key.
ConcSearchLookup ==
    /\ wcache = <<>> /\ pcache = <<>>
    /\ \A d \in Threads : th[d].op \in {"idle", "search"}
    /\ \E c \in Threads, q \in Queries, n \in NumResults :
          LET key == SearchKey(q, n)
              fresh == SearchFresh(key)
          IN  /\ th[c].pc \in {"idle", "done"}
              /\ th' = [th EXCEPT ![c] =
                          Looked(c, "search", <<q, n>>, fresh,
                                 IF fresh THEN CachedResults(key) ELSE <<>>)]
              /\ scache' = IF fresh THEN CacheAfterHit(scache, key) ELSE scache
    /\ UNCHANGED <<now, wcache, pcache, wrote>>
    /\ UNCHANGED notConcVars

\* search, lines 87-107: the upstream answers; the results of a first
\* attempt are stored and returned, a failed first attempt is followed by
\* scraping, whose results are returned or whose exception leaves
ConcSearchUpstream ==
    /\ \E c \in Threads, page \in ConcPages, ok \in BOOLEAN, ok2 \in BOOLEAN :
          LET q == th[c].key[1]
              n == th[c].key[2]
              results == AttemptResults(FirstAttempt(TRUE), page, n, DateTime(now, 5))
              scraped == ScrapingResults(page, n, DateTime(now, 5))
          IN  /\ th[c].op = "search" /\ th[c].pc = "fetching"
              /\ scache' = IF ok THEN SearchStore(SearchKey(q, n), results) ELSE scache
              /\ wrote' = IF ok THEN Wrote("search", <<q, n>>, results) ELSE wrote
              /\ th' = [th EXCEPT ![c] =
                          IF ok
                          THEN Finished(Produced(@, results), 1, "returned",
                                        [value |-> results])
                          ELSE IF ok2
                          THEN Finished(Produced(@, scraped), 2, "returned",
                                        [value |-> scraped])
                          ELSE Finished(@, 2, "raised", None)]
    /\ UNCHANGED <<now, wcache, pcache>>
    /\ UNCHANGED notConcVars

\* text[:max_length]
Truncate(text, max_length) == SubSeq(text, 1, Min(Len(text), max_length))

\* line 267: what get_webpage_content returns when anything raised
PageError == <<"[Could not retrieve content from url]">>

PageVisibleUnguarded(url) == url \in DOMAIN pcache

\* line 230: the entry of a url counts only once it holds "content"
PageVisible(url) ==
    /\ url \in DOMAIN pcache
    /\ "content" \in DOMAIN pcache[url]

\* lines 230-232: the content is cached and younger than cache_duration
PageFresh(url) ==
    /\ PageVisible(url)
    /\ "content" \in DOMAIN pcache[url]
    /\ now - pcache[url].content.timestamp < SearchCacheDuration

\* lines 255-256: the url gets an empty entry if it has none
PageCreate(url) ==
    IF url \notin DOMAIN pcache THEN (url :> <<>>) @@ pcache ELSE pcache

\* lines 258-261: the content of the url's entry is set
PageStore(url, text) ==
    [pcache EXCEPT ![url] =
        ("content" :> [text |-> text, timestamp |-> now]) @@ @]

\* get_webpage_content(url, max_length), lines 228-234: the cache lookup; it
\* runs on the WebSearcher the search calls share
ConcPageLookup ==
    /\ wcache = <<>> /\ scache = <<>>
    /\ \A d \in Threads : th[d].op \in {"idle", "get_webpage_content"}
    /\ \E c \in Threads, url \in ConcUrls, m \in MaxLengths :
          LET fresh == PageFresh(url)
          IN  /\ th[c].pc \in {"idle", "done"}
              /\ th' = [th EXCEPT ![c] =
                          Looked(c, "get_webpage_content", <<url, m>>, fresh,
                                 IF fresh
                                 THEN Truncate(pcache[url].content.text, m)
                                 ELSE <<>>)]
    /\ UNCHANGED <<now, scache, wcache, pcache, wrote>>
    /\ UNCHANGED notConcVars

\* get_webpage_content, lines 236-256: the page is fetched and its text
\* extracted, and the url gets its entry if it has none; a failure is
\* returned as a message
ConcPageUpstream ==
    /\ \E c \in Threads, ok \in BOOLEAN, text \in ConcTexts :
          /\ th[c].op = "get_webpage_content"
          /\ th[c].pc = "fetching" /\ th[c].fetches = 0
          /\ pcache' = IF ok THEN PageCreate(th[c].key[1]) ELSE pcache
          /\ th' = [th EXCEPT ![c] =
                      IF ok
                      THEN [Produced(@, text) EXCEPT !.fetches = 1]
                      ELSE Finished(@, 1, "returned", [value |-> PageError])]
    /\ UNCHANGED <<now, scache, wcache, wrote>>
    /\ UNCHANGED notConcVars

\* get_webpage_content, lines 258-263: the content is stored in the entry
\* and the text returned
ConcPageStore ==
    /\ \E c \in Threads :
          LET url == th[c].key[1]
              text == th[c].src.data
          IN  /\ th[c].op = "get_webpage_content"
              /\ th[c].pc = "fetching" /\ th[c].fetches = 1
              /\ pcache' = PageStore(url, text)
              /\ wrote' = Wrote("get_webpage_content", th[c].key, text)
              /\ th' = [th EXCEPT ![c] =
                          Finished(@, 1, "returned",
                                   [value |-> Truncate(text, th[c].key[2])])]
    /\ UNCHANGED <<now, scache, wcache>>
    /\ UNCHANGED notConcVars

\* get_weather(location), lines 42-52: the key check and the cache lookup
ConcWeatherLookup ==
    /\ scache = <<>> /\ pcache = <<>>
    /\ \A d \in Threads : th[d].op \in {"idle", "get_weather"}
    /\ \E c \in Threads, loc \in Locations :
          LET o == GetWeatherOutcome(loc, "ok")
          IN  /\ th[c].pc \in {"idle", "done"}
              /\ th' = [th EXCEPT ![c] =
                          IF o = "no_key"
                          THEN [Finished(Looked(c, "get_weather", <<loc>>, TRUE, <<>>),
                                         0, "returned", [value |-> MissingKeyError])
                                  EXCEPT !.src = None]
                          ELSE Looked(c, "get_weather", <<loc>>, o = "hit",
                                      IF o = "hit" THEN wcache[WeatherKey(loc)].data
                                      ELSE <<>>)]
              /\ wcache' = IF o = "hit" THEN CacheAfterHit(wcache, WeatherKey(loc))
                           ELSE wcache
    /\ UNCHANGED <<now, scache, pcache, wrote>>
    /\ UNCHANGED notConcVars

\* get_weather, lines 54-95: the upstream answers; a parsed payload is
\* stored and returned, a failure becomes an error payload or leaves
ConcWeatherUpstream ==
    /\ \E c \in Threads, fetch \in FetchOutcomes, raw \in ConcTemps :
          LET loc == th[c].key[1]
              info == WeatherInfo(loc, raw)
          IN  /\ th[c].op = "get_weather" /\ th[c].pc = "fetching"
              /\ wcache' = IF fetch = "ok" THEN WeatherStore(loc, info) ELSE wcache
              /\ wrote' = IF fetch = "ok" THEN Wrote("get_weather", <<loc>>, info)
                          ELSE wrote
              /\ th' = [th EXCEPT ![c] =
                          CASE fetch = "ok" ->
                                  Finished(Produced(@, info), 1, "returned",
                                           [value |-> info])
                            [] fetch = "request_error" ->
                                  Finished(@, 1, "returned", [value |-> RequestError])
                            [] fetch = "parse_error" ->
                                  Finished(@, 1, "returned", [value |-> ParseError])
                            [] fetch = "other_error" -> Finished(@, 1, "raised", None)]
    /\ UNCHANGED <<now, scache, pcache>>
    /\ UNCHANGED notConcVars

\* time passes while calls are in flight or between calls
ConcTick ==
    /\ \E t \in ConcInstants : t > now /\ now' = t
    /\ UNCHANGED <<scache, wcache, th, pcache, wrote>>
    /\ UNCHANGED notConcVars

ConcNext ==
    \/ ConcSearchLookup
    \/ ConcSearchUpstream
    \/ ConcPageLookup
    \/ ConcPageUpstream
    \/ ConcPageStore
    \/ ConcWeatherLookup
    \/ ConcWeatherUpstream
    \/ ConcTick

InitConc == AgentInit /\ now = 0 /\ SearchIdle /\ WeatherIdle /\ rt = None
               /\ ExtIdle
SpecConc == InitConc /\ [][ConcNext]_vars

(***************************************************************************)
(* Properties of the agent, checked under Spec                             *)
(***************************************************************************)

\* the node that ran last in the current run ("none" before the first)
LastNode == IF trace = <<>> THEN "none" ELSE trace[Len(trace)]

\* C1: when the routing call fails or its output is not a ToolSelection,
\* _route yields {tool: respond, tool_input: ""}, no exception leaves it,
\* and in a workflow run the node after route is respond.
C1_RouterFallsBackToRespond ==
    (llm_out \in LLMFailures) =>
        /\ selection = ToolSelection("respond", "")
        /\ LastNode = "route" => ret = selection
        /\ raised = "none"
        /\ caller = "workflow" =>
              /\ pc \in {"respond", "end", "idle"}
              /\ Len(trace) >= 2 => trace[2] = "respond"

C1_Witness ==
    /\ caller = "workflow"
    /\ llm_out = "not_json"
    /\ trace = <<"route", "respond">>
    /\ pc = "end"

\* C2: in a workflow run the nodes that ran are route, then exactly the
\* handler of the tag the router produced (none for respond), then respond,
\* and respond after the tag respond sees the empty context.
C2_DispatchFollowsTag ==
    (caller = "workflow" /\ pc = "end") =>
        IF selection.tool \in Handlers
        THEN trace = <<"route", selection.tool, "respond">>
        ELSE trace = <<"route", "respond">> /\ state.context = ""

\* C3: _route called on a state with no messages hands the empty string to
\* the routing chain and returns a selection; nothing is raised.
C3_RouteOnEmptyConversation ==
    (trace # <<>> /\ trace[1] = "route" /\ state.messages = <<>>) =>
        /\ router_input = ""
        /\ raised = "none"
        /\ selection # None /\ selection.tool \in ToolType

C3_Witness ==
    /\ caller = "direct"
    /\ pc = "returned"
    /\ trace = <<"route">>
    /\ state.messages = <<>>
    /\ llm_out = "ok"

\* C4: a tool handler lets no exception out: whatever failed inside it (no
\* tool_input in the state, a raising adapter) it returns a state whose
\* current_tool is its own tag and whose context and tool_result are its
\* error strings.
C4_HandlerFailuresBecomeErrorState ==
    (LastNode \in Handlers) =>
        /\ raised = "none"
        /\ DOMAIN ret = StateKeys
        /\ ret.current_tool = LastNode
        /\ ret.messages = state.messages
        /\ fault # "none" =>
              /\ ret.context = ErrContext(LastNode)
              /\ ret.tool_result = ErrResult(LastNode)

C4_Witness ==
    /\ LastNode = "web_search"
    /\ fault = "adapter_error"
    /\ "tool_input" \in DOMAIN state
    /\ ret.context = "Error performing web search. Please try again."

\* C16: the messages of the state a workflow run ends with are the messages
\* process_message built from its arguments (the converted history, then
\* the new user message), in that order and once each, followed by exactly
\* one new assistant message.
C16_MessagesAreInputPlusOneReply ==
    (caller = "workflow" /\ pc = "end") =>
        LET input == ConvertHistory(request.history)
                        \o <<HumanMessage(request.message)>>
            m == state.messages
        IN  /\ Len(m) = Len(input) + 1
            /\ SubSeq(m, 1, Len(input)) = input
            /\ m[Len(m)].type = "ai"

C18_PromptFollowsCurrentTool ==
    (LastNode = "respond") =>
        LET tool == IF caller = "direct" THEN state.current_tool
                    ELSE IF Len(trace) = 3 THEN trace[2] ELSE NoneStr
        IN  /\ tool = "document_retrieval" =>
                  prompt = <<"You are a knowledgeable wine concierge. ... Relevant information:",
                             state.context>>
            /\ tool = "web_search" =>
                  prompt = <<"You are a helpful assistant. ... Search results:",
                             state.context>>
            /\ tool = "weather" =>
                  prompt = <<"You are a helpful assistant providing weather information. ... current weather information:",
                             state.context>>
            /\ tool = NoneStr =>
                  prompt = <<"You are a friendly and knowledgeable wine concierge. ...">>

C18_Witness ==
    /\ caller = "direct"
    /\ LastNode = "respond"
    /\ state.current_tool = "web_search"
    /\ state.context = "Result 1..n"
    /\ prompt = <<SearchTemplate, "Result 1..n">>
    /\ ret.current_tool = NoneStr

(***************************************************************************)
(* Properties of the WebSearcher, checked under SpecSearch                 *)
(***************************************************************************)

\* C5: a search made less than 24 hours after a search with the same query
\* and num_results stored its results returns those results, equal field
\* by field and in order, and makes no upstream call.
C5_SearchWithinWindowIsCached ==
    (scall # None /\ scall.prior # None
        /\ now - scall.prior.at < SearchCacheHours * 60) =>
        /\ scall.outcome = "returned"
        /\ scall.attempts = <<>>
        /\ scall.results = scall.prior.results

C5_Witness ==
    /\ scall # None /\ scall.prior # None
    /\ now - scall.prior.at = SearchCacheHours * 60 - 1
    /\ scall.hit
    /\ Len(scall.results) = 2
    /\ scall.results[1].timestamp = DateTime(0, 5)

\* C6: a search made 24 hours or more after the entry for its query and
\* num_results was stored calls the upstream, and when that attempt
\* succeeds the entry holds the new results and the time of this call.
C6_SearchAfterWindowRefetches ==
    (scall # None /\ scall.prior # None
        /\ now - scall.prior.at >= SearchCacheHours * 60) =>
        /\ ~scall.hit
        /\ Len(scall.attempts) >= 1
        /\ scall.attempts[1].ok =>
              LET key == <<"search", scall.query, scall.num_results>>
              IN  /\ key \in DOMAIN scache
                  /\ scache[key].timestamp = now
                  /\ scache[key].results =
                        [i \in 1..Len(scall.results) |-> ToDict(scall.results[i])]
                  /\ scall.outcome = "returned"
                  /\ \A i \in 1..Len(scall.results) :
                        scall.results[i].timestamp.min = now

C6_Witness ==
    /\ scall # None /\ scall.prior # None
    /\ now - scall.prior.at = SearchCacheHours * 60
    /\ scall.attempts = <<Attempt("api", TRUE)>>
    /\ Len(scall.results) = 1
    /\ scall.prior.results = <<>>
    /\ Len(scache[<<"search", scall.query, scall.num_results>>].results) = 1

\* C15: on a cache miss the first upstream attempt of search is the search
\* API exactly when use_api is true and both the API key and the search
\* engine id are configured, and scraping otherwise; when the API attempt
\* raises, scraping is attempted next and, when it answers, its results are
\* what the caller gets: the exception of the API attempt never leaves.
C15_StrategySelectionAndFallback ==
    (scall # None /\ ~scall.hit) =>
        /\ Len(scall.attempts) >= 1
        /\ (scall.attempts[1].kind = "api") <=>
              (scall.use_api /\ sconf.api_key /\ sconf.search_engine_id)
        /\ scall.attempts[1].kind \in {"api", "scraping"}
        /\ (scall.attempts[1].kind = "api" /\ ~scall.attempts[1].ok) =>
              /\ Len(scall.attempts) = 2
              /\ scall.attempts[2].kind = "scraping"
              /\ scall.attempts[2].ok =>
                    /\ scall.outcome = "returned"
                    /\ \A i \in 1..Len(scall.results) :
                          scall.results[i].source = "duckduckgo"
              /\ scall.outcome = "raised" => ~scall.attempts[2].ok

C15_Witness ==
    /\ scall # None /\ ~scall.hit
    /\ sconf.api_key /\ sconf.search_engine_id
    /\ scall.attempts = <<Attempt("api", FALSE), Attempt("scraping", TRUE)>>
    /\ scall.outcome = "returned"
    /\ Len(scall.results) = 2
    /\ scall.results[1].source = "duckduckgo"

(***************************************************************************)
(* Properties of SearchResult, checked under SpecResult                    *)
(***************************************************************************)

\* C9: from_dict(to_dict(r)) is r for every SearchResult r, the timestamp
\* present or None, and a second round trip gives the same value again.
C9_RoundTripIsIdentity ==
    rt # None => (rt.back = rt.value /\ rt.again = rt.back)

C9_Witness ==
    /\ rt # None
    /\ rt.value.timestamp = None
    /\ rt.dict.timestamp = None
    /\ rt.value.title = ""
    /\ rt.back.source = "google"

(***************************************************************************)
(* Properties of the WeatherService, checked under SpecWeather             *)
(***************************************************************************)

\* C7: with an API key, a get_weather call made less than 30 minutes after
\* a successful fetch for the same location returns the payload of that
\* fetch and asks the upstream nothing, so the two calls cost one fetch.
C7_WeatherWithinWindowIsCached ==
    (wcall # None /\ wkey /\ wcall.prior # None
        /\ now - wcall.prior.at < 30) =>
        /\ ~wcall.fetched
        /\ wcall.outcome = "hit"
        /\ wcall.payload = wcall.prior.payload

C7_Witness ==
    /\ wcall # None /\ wkey /\ wcall.prior # None
    /\ wcall.method = "get_weather"
    /\ now - wcall.prior.at = 29
    /\ wcall.outcome = "hit"
    /\ wcall.payload.temperature = 81

\* C8: a get_weather call made 30 minutes or more after the entry of its
\* location was cached asks the upstream again, and when that fetch
\* succeeds the entry holds the new payload and the time of this call.
C8_WeatherAfterWindowRefetches ==
    (wcall # None /\ wcall.prior # None
        /\ now - wcall.prior.at >= 30) =>
        /\ wcall.fetched
        /\ wcall.outcome = "ok" =>
              /\ <<"weather", wcall.location>> \in DOMAIN wcache
              /\ wcache[<<"weather", wcall.location>>] =
                    [data |-> wcall.payload, timestamp |-> now]
              /\ wcall.payload.timestamp = now

C8_Witness ==
    /\ wcall # None /\ wcall.prior # None
    /\ now - wcall.prior.at = 31
    /\ wcall.outcome = "ok"
    /\ wcall.payload.temperature = 49
    /\ wcall.prior.payload.temperature = 80
    /\ wcache[<<"weather", wcall.location>>].timestamp = 31

\* C10: get_weather_summary appends exactly one advice sentence to a
\* fetched record: the chilled white or rose one iff the temperature is
\* above 80, the bold red one iff it is below 50, the medium-bodied one
\* otherwise; for an error payload it returns the "couldn't retrieve" text
\* and no advice.
C10_AdviceFollowsTemperatureBand ==
    (wcall # None /\ wcall.method = "get_weather_summary"
        /\ wcall.payload # None) =>
        IF "error" \in DOMAIN wcall.payload
        THEN /\ wcall.summary.advice = <<>>
             /\ wcall.summary.head = "I couldn't retrieve the weather information."
             /\ wcall.summary.detail = wcall.payload["error"]
        ELSE LET t == wcall.payload["temperature"]
                 a == wcall.summary.advice
             IN  /\ Len(a) = 1
                 /\ wcall.summary.temperature = t
                 /\ (a[1] = " It's quite warm - a chilled white or rose wine would be refreshing!") <=> (t > 80)
                 /\ (a[1] = " It's a bit chilly - perfect for a bold red wine to warm you up!") <=> (t < 50)
                 /\ (a[1] = " The weather is pleasant - a nice medium-bodied wine would be perfect!") <=> (t >= 50 /\ t <= 80)

C10_Witness ==
    /\ wcall # None /\ wcall.method = "get_weather_summary"
    /\ wcall.outcome = "ok"
    /\ wcall.payload.temperature = 80
    /\ wcall.summary.advice = <<MediumBodied>>

\* C14: without an API key get_weather returns, for every location, a
\* payload with the key 'error'; it raises nothing, asks the upstream
\* nothing, and returns before the cache is looked at, so the cache is the
\* one the service was constructed with.
C14_NoKeyReturnsErrorPayload ==
    (wcall # None /\ ~wkey) =>
        /\ wcall.payload # None
        /\ "error" \in DOMAIN wcall.payload
        /\ wcall.payload["error"] =
              "Weather service is not properly configured. Missing API key."
        /\ ~wcall.fetched
        /\ wcall.outcome = "no_key"
        /\ wcache = <<>>
        /\ wfetched = <<>>

C14_Witness ==
    /\ ~wkey
    /\ wcall # None /\ wcall.method = "get_weather"
    /\ wcall.location = "Paris,FR"
    /\ wcall.payload = MissingKeyError
    /\ now = 30

(***************************************************************************)
(* Properties of the DocumentRetriever and of the HTTP layer of api.py,    *)
(* checked under SpecApi                                                   *)
(***************************************************************************)

\* C11: an upload that loads no document answers 200 with document_count 0,
\* calls neither create_vector_store nor save_vector_store and leaves the
\* index in memory and the index on disk as they were; an upload that loads
\* documents builds the index from them, saves it only after it was built,
\* and when both succeeded answers 200 with the number of loaded documents.
C11_UploadBuildsOnlyFromDocuments ==
    (dcall # None /\ dcall.op = "upload_documents") =>
        /\ dcall.steps[1] = "load_documents"
        /\ dcall.loaded = <<>> =>
              /\ http.status = 200
              /\ http.body.document_count = 0
              /\ dcall.steps = <<"load_documents">>
              /\ retr["api"].vector_store = dcall.before.vector_store
              /\ disk = dcall.before.disk
        /\ dcall.loaded # <<>> =>
              /\ Len(dcall.steps) >= 2
              /\ dcall.steps[2] = "create_vector_store"
              /\ Len(dcall.steps) = 3 =>
                    /\ dcall.steps[3] = "save_vector_store"
                    /\ retr["api"].vector_store = [chunks |-> dcall.loaded]
              /\ ~dcall.raised =>
                    /\ Len(dcall.steps) = 3
                    /\ http.status = 200
                    /\ http.body.document_count = Len(dcall.loaded)
                    /\ disk = [chunks |-> dcall.loaded]
              /\ dcall.raised => (http.status = 500 /\ disk = dcall.before.disk)

C11_Witness ==
    /\ dcall # None /\ dcall.op = "upload_documents"
    /\ dir = {".pdf"}
    /\ dcall.loaded = <<>>
    /\ dcall.before.vector_store = [chunks |-> <<".txt", ".pdf">>]
    /\ disk = [chunks |-> <<".txt", ".pdf">>]
    /\ http.status = 200
    /\ http.body.document_count = 0

\* C12: a declared HTTP error raised while serving a request is answered
\* with its status code and its detail; any other exception raised while
\* serving a request is answered with 500 and the fixed detail
\* "An unexpected error occurred", which is not the text of the exception.
C12_ExceptionsGetGenericDetail ==
    (http # None /\ http.error # None) =>
        IF http.error.kind = "HTTPException"
        THEN /\ http.status = http.error.status_code
             /\ http.body = [detail |-> http.error.detail]
        ELSE /\ http.status = 500
             /\ http.body = [detail |-> "An unexpected error occurred"]
             /\ http.body.detail # http.error.text

\* C19: similarity_search on a retriever that holds no index calls
\* load_vector_store first and create_vector_store only when the load
\* failed, both before the search of the same call; on a retriever that
\* holds an index it only searches and the index stays the same object; a
\* failing search returns the empty list and raises nothing.
C19_IndexPreparedOnceBeforeSearch ==
    (dcall # None /\ dcall.op = "similarity_search") =>
        LET steps == dcall.steps
            searched == steps # <<>> /\ steps[Len(steps)] = "search"
        IN  /\ dcall.before.vector_store # None =>
                  /\ steps = <<"search">>
                  /\ retr[dcall.retriever].vector_store = dcall.before.vector_store
            /\ dcall.before.vector_store = None =>
                  /\ steps[1] = "load_vector_store"
                  /\ dcall.load_ok =>
                        /\ steps = <<"load_vector_store", "search">>
                        /\ retr[dcall.retriever].vector_store = disk
                  /\ ~dcall.load_ok =>
                        /\ Len(steps) >= 2 /\ steps[2] = "create_vector_store"
                        /\ Len(steps) = 3 => steps[3] = "search"
            /\ Len(steps) <= 3
            /\ (searched /\ ~dcall.search_ok) =>
                  (~dcall.raised /\ dcall.results = [docs |-> <<>>])
            /\ searched <=> ~dcall.raised

C19_Witness ==
    /\ dcall # None /\ dcall.op = "similarity_search"
    /\ dcall.retriever = "agent"
    /\ dcall.before.vector_store = None
    /\ dcall.steps = <<"load_vector_store", "create_vector_store", "search">>
    /\ ~dcall.search_ok
    /\ dcall.results = [docs |-> <<>>]
    /\ retr["agent"].vector_store = [chunks |-> <<".txt">>]

(***************************************************************************)
(* Properties of the rate limited application, checked under SpecMain      *)
(***************************************************************************)

\* C13: a request the limiter rejected is answered with 429, a body with
\* exactly detail, retry_after and limits, limits.remaining being 0, and the
\* headers Retry-After, X-RateLimit-Limit, X-RateLimit-Remaining ("0") and
\* X-RateLimit-Reset; a request answered on any other path has another
\* status, a body without retry_after and limits, and none of the headers.
C13_OnlyRejectionsGetTheStructured429 ==
    mresp # None =>
        IF mresp.rejected
        THEN /\ mresp.status = 429
             /\ DOMAIN mresp.body = {"detail", "retry_after", "limits"}
             /\ mresp.body.limits.remaining = 0
             /\ DOMAIN mresp.body.limits = {"limit", "remaining", "reset"}
             /\ mresp.body.retry_after =
                    Str(mresp.error.retry_after) \o <<" seconds">>
             /\ DOMAIN mresp.headers =
                    {"Retry-After", "X-RateLimit-Limit",
                     "X-RateLimit-Remaining", "X-RateLimit-Reset"}
             /\ mresp.headers["X-RateLimit-Remaining"] = <<"0">>
             /\ mresp.headers["Retry-After"] = Str(mresp.error.retry_after)
        ELSE /\ mresp.status # 429
             /\ DOMAIN mresp.body \cap {"retry_after", "limits"} = {}
             /\ DOMAIN mresp.headers = {}

C13_Witness ==
    /\ mresp # None /\ mresp.rejected
    /\ mresp.endpoint = "/api/chat"
    /\ hits["/api/chat"] = 10
    /\ mresp.error.limit = "10/minute"
    /\ mresp.status = 429
    /\ mresp.headers["Retry-After"] = <<"6", "0">>
    /\ mresp.body.limits.reset = 120

(***************************************************************************)
(* Properties of concurrent callers of an adapter, checked under SpecConc  *)
(***************************************************************************)

\* C20: a search or get_weather call that finds no fresh entry for its key
\* makes its own upstream call, also while another call for the same key is
\* in flight: it is never parked behind that call and never returns without
\* having asked the upstream itself; so two calls for one key that both
\* looked before either stored cost two upstream calls.
C20_EveryMissFetchesItself ==
    /\ \A c \in Threads :
          /\ th[c].pc \in {"idle", "fetching", "done"}
          /\ th[c].saw = "miss" =>
                \/ th[c].pc = "fetching"
                \/ th[c].pc = "done" /\ th[c].fetches >= 1
          /\ th[c].saw = "hit" => th[c].fetches = 0
    /\ \A c, d \in Threads :
          (/\ c # d
           /\ th[c].op = th[d].op /\ th[c].key = th[d].key
           /\ th[c].pc = "done" /\ th[d].pc = "done"
           /\ th[c].saw = "miss" /\ th[d].saw = "miss") =>
              th[c].fetches + th[d].fetches >= 2

C20_Witness ==
    /\ th["t1"].op = "search" /\ th["t2"].op = "search"
    /\ th["t1"].key = <<"q1", 2>> /\ th["t2"].key = <<"q1", 2>>
    /\ th["t1"].pc = "done" /\ th["t2"].pc = "done"
    /\ th["t1"].saw = "miss" /\ th["t2"].saw = "miss"
    /\ th["t2"].raced
    /\ th["t1"].fetches = 1 /\ th["t2"].fetches = 1
    /\ th["t1"].result = [value |-> <<>>]
    /\ Len(th["t2"].result.value) = 1
    /\ now = 0

\* what a call hands to its caller of the data a fetch brought
Delivered(op, key, data) ==
    IF op = "get_webpage_content" THEN Truncate(data, key[2]) ELSE data

\* the values a call returns that are no data of any fetch
IsErrorPayload(op, value) ==
    CASE op = "get_weather" -> value \in {MissingKeyError, RequestError, ParseError}
      [] op = "get_webpage_content" -> value = PageError
      [] OTHER -> FALSE

\* C21: however get_weather, search and get_webpage_content calls on a
\* shared adapter interleave, a call that returns data returns what one
\* upstream fetch for its own key brought (possibly an old one), anything
\* else it returns is an error payload; and every cache entry a reader
\* accepts holds the data and the timestamp one fetch for that key wrote.
C21_OnlyStalenessUnderInterleaving ==
    /\ \A c \in Threads :
          (th[c].pc = "done" /\ th[c].outcome = "returned") =>
              IF th[c].src = None
              THEN IsErrorPayload(th[c].op, th[c].result.value)
              ELSE /\ th[c].src.op = th[c].op
                   /\ th[c].src.key = FetchKey(th[c].op, th[c].key)
                   /\ th[c].src.at <= now
                   /\ th[c].result.value =
                         Delivered(th[c].op, th[c].key, th[c].src.data)
    /\ \A k \in DOMAIN scache :
          /\ k \in DOMAIN wrote.search
          /\ CacheKey("search", wrote.search[k].key) = k
          /\ scache[k].timestamp = wrote.search[k].at
          /\ scache[k].results =
                [i \in 1..Len(wrote.search[k].data) |->
                    ToDict(wrote.search[k].data[i])]
    /\ \A k \in DOMAIN wcache :
          /\ k \in DOMAIN wrote.get_weather
          /\ CacheKey("get_weather", wrote.get_weather[k].key) = k
          /\ wcache[k] = [data |-> wrote.get_weather[k].data,
                          timestamp |-> wrote.get_weather[k].at]
    /\ \A u \in DOMAIN pcache :
          PageVisible(u) =>
              /\ "content" \in DOMAIN pcache[u]
              /\ u \in DOMAIN wrote.get_webpage_content
              /\ wrote.get_webpage_content[u].key = <<u>>
              /\ pcache[u].content =
                    [text |-> wrote.get_webpage_content[u].data,
                     timestamp |-> wrote.get_webpage_content[u].at]

\* one thread is between creating the entry of a url and storing its
\* content while the other, whose fetch was stored, is served from the cache
C21_Witness ==
    /\ th["t1"].op = "get_webpage_content" /\ th["t2"].op = "get_webpage_content"
    /\ th["t1"].pc = "fetching" /\ th["t1"].fetches = 1
    /\ th["t1"].src.data = <<"w1", "w2">>
    /\ th["t2"].pc = "done" /\ th["t2"].saw = "hit"
    /\ th["t2"].key = <<"http://u", 1>>
    /\ th["t2"].result = [value |-> <<"w3">>]
    /\ pcache["http://u"].content.text = <<"w3">>

\* the step in which the call of thread c stores what its fetch brought
\* under key k of the cache of op
StoresEntry(c, op, k) ==
    /\ th[c].op = op /\ th[c].pc = "fetching"
    /\ CacheKey(op, th[c].key) = k
    /\ th'[c].pc = "done" /\ th'[c].outcome = "returned"
    /\ th'[c].fetches = 1 /\ th'[c].src # None

\* C22: no step of a WebSearcher or of a WeatherService removes a key from
\* its cache; an entry, expired or not, stays exactly as it is in every
\* step but the one in which a fetch for its own key stores over it, and
\* that step stamps it with the present time.
C22_CacheKeysNeverShrink ==
    [][/\ DOMAIN scache \subseteq DOMAIN scache'
       /\ DOMAIN wcache \subseteq DOMAIN wcache'
       /\ DOMAIN pcache \subseteq DOMAIN pcache'
       /\ \A k \in DOMAIN scache :
             \/ scache'[k] = scache[k]
             \/ /\ \E c \in Threads : StoresEntry(c, "search", k)
                /\ scache'[k].timestamp = now
       /\ \A k \in DOMAIN wcache :
             \/ wcache'[k] = wcache[k]
             \/ /\ \E c \in Threads : StoresEntry(c, "get_weather", k)
                /\ wcache'[k].timestamp = now
       /\ \A u \in DOMAIN pcache :
             \/ pcache'[u] = pcache[u]
             \/ /\ \E c \in Threads : StoresEntry(c, "get_webpage_content", u)
                /\ pcache'[u].content.timestamp = now]_vars

\* an entry that expired is still in the cache after a fetch for another
\* key has stored its results
C22_Witness ==
    /\ now = SearchCacheDuration
    /\ SearchKey("q1", 1) \in DOMAIN scache
    /\ SearchKey("q1", 2) \in DOMAIN scache
    /\ scache[SearchKey("q1", 1)].timestamp = 0
    /\ ~SearchFresh(SearchKey("q1", 1))
    /\ scache[SearchKey("q1", 2)].timestamp = SearchCacheDuration
    /\ \E c \in Threads :
          /\ th[c].op = "search" /\ th[c].key = <<"q1", 2>>
          /\ th[c].pc = "done" /\ th[c].fetches = 1

\* the states a node of the workflow can leave behind from st, over all the
\* answers of the language model and of the adapters
NodeResults(node, st) ==
    CASE node = "route" ->
            {ApplyUpdate(st, RouteSelection(out, ToolSelection(t, i))) :
                out \in LLMOutcomes, t \in ToolType, i \in ToolInputs}
      [] node = "respond" ->
            {ApplyUpdate(st, RespondReturn(st, text)) :
                text \in Replies \cup {RespondError}}
      [] OTHER ->
            {ApplyUpdate(st, HandlerReturn(node, st, out)) :
                out \in AdapterOutcomes(node)}

\* the states the nodes of tr, run in this order, can leave behind from one
\* of the states of S
RECURSIVE RunStates(_, _)
RunStates(tr, S) ==
    IF tr = <<>> THEN S
    ELSE RunStates(Tail(tr), UNION {NodeResults(Head(tr), st) : st \in S})

\* C23: at every point of a process_message call the AgentState is what the
\* nodes run so far make of the state built from this call's message and
\* history, whatever requests were served before; the router is asked about
\* this call's message, and the result is read from this call's final state.
C23_StateDependsOnRequestOnly ==
    caller = "workflow" =>
        LET fresh == AgentState(ConvertHistory(request.history)
                                    \o <<HumanMessage(request.message)>>,
                                "", NoneStr, NoneStr)
        IN  /\ state \in RunStates(trace, {fresh})
            /\ trace # <<>> => router_input = request.message
            /\ result # None => result = ProcessResult(state)

\* a request is answered on an agent that has served a different request
\* with a history before
C23_Witness ==
    /\ caller = "workflow" /\ pc = "end"
    /\ earlier # None /\ request # None
    /\ earlier = [message |-> "napa", turns |-> 1]
    /\ request = [message |-> "hi", history |-> <<>>]
    /\ trace = <<"route", "respond">>
    /\ state.messages[1] = HumanMessage("hi")
    /\ state.messages[Len(state.messages)] = AIMessage("reply")

(***************************************************************************)
(* Properties of process_message with its except branch, checked under     *)
(* SpecProcess                                                             *)
(***************************************************************************)

\* C25: process_message never raises: a call that has returned has handed
\* back a dictionary, and when an exception was raised while the history
\* was converted or the workflow ran, that dictionary holds the fixed
\* apology as response and the exception text as error and nothing else,
\* so no context and no tool_used; a call in which nothing was raised
\* hands back no error field.
C25_ProcessMessageNeverRaises ==
    (caller = "workflow" /\ pc = "idle") =>
        /\ result # None
        /\ raised # "none" =>
              /\ DOMAIN result = {"response", "error"}
              /\ result.response = ProcessError
              /\ result.error = raised
        /\ raised = "none" =>
              DOMAIN result = {"response", "context", "tool_used", "tool_result"}

\* a call whose history holds an entry without a role has returned
C25_Witness ==
    /\ caller = "workflow" /\ pc = "idle"
    /\ request.history = <<[content |-> "hi"]>>
    /\ raised = "'role'"
    /\ trace = <<>>
    /\ result = [response |-> ProcessError, error |-> "'role'"]

\* C24: the state _respond returns has current_tool and tool_result set to
\* None, whatever tool the state it was given records; so the state of a
\* workflow run after respond records no tool, and the result of
\* process_message, when it carries the fields at all, has tool_used None
\* and tool_result None.
C24_RespondClearsTool ==
    /\ LastNode = "respond" =>
          /\ ret.current_tool = NoneStr
          /\ ret.tool_result = NoneStr
          /\ caller = "workflow" =>
                state.current_tool = NoneStr /\ state.tool_result = NoneStr
    /\ (caller = "workflow" /\ pc = "idle") =>
          /\ "tool_used" \in DOMAIN result => result.tool_used = NoneStr
          /\ "tool_result" \in DOMAIN result => result.tool_result = NoneStr
          /\ raised = "none" => {"tool_used", "tool_result"} \subseteq DOMAIN result

\* _respond was given the state the weather handler returned
C24_Witness ==
    /\ caller = "direct"
    /\ trace = <<"respond">>
    /\ state.current_tool = "weather"
    /\ state.tool_result = "Current weather ... advice"
    /\ ret.current_tool = NoneStr
    /\ ret.context = "Current weather ... advice"

(***************************************************************************)
(* Properties of the chat endpoint of api.py, checked under SpecApi        *)
(***************************************************************************)

C26_WitnessEmpty ==
    /\ http # None /\ http.endpoint = "/api/chat"
    /\ http.request = <<>>
    /\ http.status = 500
    /\ http.agent_call = None

\* the window of an adapter, in minutes
Window(op) ==
    IF op = "get_weather" THEN WeatherCacheMinutes ELSE SearchCacheDuration

\* the call of thread d is where it was
SameCall(d) ==
    /\ th'[d].op = th[d].op /\ th'[d].pc = th[d].pc
    /\ th'[d].saw = th[d].saw /\ th'[d].fetches = th[d].fetches
    /\ th'[d].key = th[d].key

\* thread c makes the cache lookup of a new call in this step
LooksUp(c) ==
    /\ th[c].pc \in {"idle", "done"}
    /\ now' = now
    /\ ~SameCall(c)
    /\ \A d \in Threads \ {c} : SameCall(d)

FetchFailed ==
    /\ wcall' # None /\ now' = now
    /\ wcall'.outcome \in FetchOutcomes \ {"ok"}

\* whatever the failure, the call stores nothing: the cache is as it was,
\* an expired entry of the location included, and the location still has
\* no fresh entry, so the next call for it asks the upstream again
FailedFetchLeavesCacheUnchanged ==
    [][FetchFailed =>
          /\ wcache' = wcache
          /\ ~WeatherFresh(wcall'.location)
          /\ \A k \in DOMAIN wcache' : "error" \notin DOMAIN wcache'[k].data]_vars

\* C28: a get_weather call whose upstream request or whose reading of the
\* response fails returns an error payload and leaves the cache as it was:
\* nothing is stored, an expired entry of the location is neither removed
\* nor refreshed, and the location still has no fresh entry, so the next
\* call for it asks the upstream again.
C28_FailedFetchReturnsErrorPayload ==
    [][FetchFailed =>
          /\ wcall'.payload \in {RequestError, ParseError}
          /\ wcache' = wcache
          /\ ~WeatherFresh(wcall'.location)]_vars

(***************************************************************************)
(* Properties of the fallback of search, checked under SpecSearch          *)
(***************************************************************************)

\* a search call is made in this step
Searches == scall' # None /\ now' = now

\* C29: a search call makes at most two upstream attempts.  When its first
\* attempt raises and use_api is true, scraping is attempted and the cache
\* is left as it was, whether scraping answers or not, so the key still has
\* no fresh entry and the next search with the same arguments is no hit;
\* when use_api is false there is no second attempt, the exception leaves
\* search and the cache is left as it was.
C29_FallbackIsNotCached ==
    [][Searches =>
          /\ Len(scall'.attempts) <= 2
          /\ (~scall'.hit /\ ~scall'.attempts[1].ok) =>
                /\ scache' = scache
                /\ ~SearchFresh(SearchKey(scall'.query, scall'.num_results))
                /\ IF scall'.use_api
                   THEN /\ Len(scall'.attempts) = 2
                        /\ scall'.attempts[2].kind = "scraping"
                        /\ scall'.attempts[2].ok =>
                              scall'.outcome = "returned"
                   ELSE /\ Len(scall'.attempts) = 1
                        /\ scall'.outcome = "raised"
          /\ (/\ scall # None
              /\ ~scall.hit /\ ~scall.attempts[1].ok
              /\ scall'.query = scall.query
              /\ scall'.num_results = scall.num_results) =>
                 (~scall'.hit /\ Len(scall'.attempts) >= 1)]_vars

\* the API attempt raised, scraping answered with a result, and the key of
\* the call is not in the cache
C29_Witness ==
    /\ scall # None /\ scall.use_api /\ ~scall.hit
    /\ scall.attempts = <<Attempt("api", FALSE), Attempt("scraping", TRUE)>>
    /\ scall.outcome = "returned"
    /\ Len(scall.results) = 1
    /\ SearchKey(scall.query, scall.num_results) \notin DOMAIN scache

(***************************************************************************)
(* Properties of the history conversion, checked under SpecConvert         *)
(***************************************************************************)

\* C30: the messages process_message builds are one message per history
\* entry, in the order of the history and with the entry's content, a human
\* message for the role user and an assistant message for every other
\* role, system included, followed by the new user message as the last one.
C30_HistoryConvertedInOrder ==
    conv.converted =>
        /\ Len(conv.messages) = Len(conv.history) + 1
        /\ \A i \in 1..Len(conv.history) :
              /\ conv.messages[i].content = conv.history[i].content
              /\ conv.messages[i].type =
                    (IF conv.history[i].role = "user" THEN "human" ELSE "ai")
        /\ conv.messages[Len(conv.messages)] = HumanMessage(conv.message)

\* a history of a system entry and a user entry has been converted
C30_Witness ==
    /\ conv.converted
    /\ conv.message = "hi"
    /\ conv.history = <<[role |-> "system", content |-> "hi"],
                        [role |-> "user", content |-> "napa"]>>
    /\ conv.messages = <<AIMessage("hi"), HumanMessage("napa"), HumanMessage("hi")>>
====
